---- MODULE Spec2Model ----
(***************************************************************************)
(* A model of the supavoice core (src-tauri): the cancellable recording    *)
(* controller (main.rs start_recording_toggle / stop_recording and         *)
(* audio/recorder.rs), the model session caches (main.rs preload threads,  *)
(* set_active_*_model, transcribe_audio, format_transcript) and the        *)
(* transcription engine (transcription/whisper.rs) and the capture         *)
(* callback of audio/recorder.rs (build_input_stream).                     *)
(*                                                                         *)
(* The components do not share state, so each has a specification of its   *)
(* own over the same variables: SpecRecording (and SpecRecordingFair,      *)
(* one caller with a fairly scheduled worker), SpecWorker (the worker's    *)
(* poll loop with any maximum duration), SpecCache, SpecRegistry (the      *)
(* cache with the downloader's commands), SpecDownload (the download      *)
(* task step by step beside delete_model), SpecRequests (the cache with a  *)
(* repeated request), SpecVocabulary (transcribe_audio beside the          *)
(* vocabulary commands), SpecEngine, SpecDecode and SpecDecodeFair (the    *)
(* token loop of decode), SpecCapture and SpecCaptureFair.  A              *)
(* specification leaves the other components' variables at their initial   *)
(* values.                                                                 *)
(*                                                                         *)
(* The code reports failures as strings; the model names them by the       *)
(* failure kinds of the specification's taxonomy:                          *)
(*   "No active recording"                     -> ActiveSessionConflict    *)
(*   "Selected model '..' is not installed",                               *)
(*   "Model not installed", "No LLM model installed" -> ModelUnavailable   *)
(*   "Audio must be 16kHz"                     -> AudioFormatMismatch      *)
(***************************************************************************)
EXTENDS Integers, Sequences, FiniteSets, TLC

\* Option::None as max_duration_secs
NoMax == -1

\* Option::None of the recording slot
NoRecording == [path |-> -1, sess |-> 0]

(***************************************************************************)
(* Bounds of the model.                                                    *)
(***************************************************************************)
\* recording workers that may be spawned in one behaviour
MaxSessions == 2
\* seconds the wall clock may advance (SystemTime::now().as_secs())
MaxClock == 1

\* preference changes (set_active_*_model calls) in one behaviour
MaxPrefChanges == 1
\* model installs and deletes (download_model / delete_model) in one behaviour
MaxRegistryOps == 1

\* the longest audio artifact given to the transcriber, in seconds
MaxSeconds == 61

\* config.max_target_positions of the model's config.json (448 for the
\* released Whisper models), scaled down
max_target_positions == 24

\* the longest max_duration_secs given to a recording, in seconds
MaxDuration == 2

\* input frames the device delivers in one behaviour, and in one callback
MaxFrames == 7
MaxBatch == 3
\* how many download tasks start_download spawns
MaxDownloads == 2

Sessions == 1..MaxSessions
\* the command invocations that may be in flight at once (tauri runs async
\* commands on a multi-threaded runtime)
Callers == {"c1", "c2"}

VARIABLES
    \* ---- recording controller (main.rs:262-266, 274) -------------------
    recording,      \* AppState.recording: NoRecording or a RecordingState
    stop_flag,      \* per session: the Arc<AtomicBool> shared with its worker
    worker,         \* per session: where its worker thread is
    worker_result,  \* per session: what record_to_file_cancellable returned
    sink,           \* per session: the WavWriter of the worker
    session_path,   \* per session: the output path it was started with
    next_session,   \* the next worker to be spawned
    clock,          \* wall clock, in seconds
    call_pc,        \* per caller: where its command invocation is
    call_sess,      \* per caller: the session its invocation holds
    ret,            \* per caller: what its last invocation returned
    since_stop,     \* history: Start/Stop order on the recording slot
    \* ---- model registry, preferences, session caches --------------------
    capability,     \* the capability ("speech" | "format") a behaviour follows
    reg_path,       \* per model: ModelRecord.path in the registry
    reg_ops,        \* installs and deletes so far
    active_whisper_model,   \* AppPreferences.active_whisper_model
    active_llm_model,       \* AppPreferences.active_llm_model
    pref_epoch,     \* history: preference saves so far
    changes_done,   \* history: set_active_*_model calls that cleared the cache
    set_pc,         \* where the set_active_*_model invocation is
    set_arg,        \* its model_id argument
    transcriber_cache,      \* AppState.transcriber_cache
    cache_lock,     \* holder of the transcriber_cache mutex across steps
    formatter_cache,        \* AppState.formatter_cache
    server,         \* per LlmFormatter: server_process (the model it runs)
    preload,        \* per preload thread: pc, captured preference, loaded engine
    req,            \* per request: pc, what it read, the engine it holds, result
    prev,           \* history: the request that returned before the current one
    vocabulary      \* AppPreferences.custom_vocabulary

\* One run of WhisperTranscriber::transcribe (transcription/whisper.rs):
\*   audio_path          the artifact it is given
\*   transcribe_pc       the call the run is about to make
\*   audio_data          the length of the sample vector load_audio returned
\*   padded_audio        the buffer audio_to_mel turned into the mel tensor
\*   decode_calls        the number of decode calls made, one segment each
\*   text                the transcript: the 30 s windows of the buffer, by
\*                       index, whose decoded text it is made of, in order
\*   transcribe_result   what the run returned
VARIABLES audio_path, transcribe_pc, audio_data, padded_audio, decode_calls,
          text, transcribe_result

\* One capture session of AudioRecorder (audio/recorder.rs:25-135):
\*   config          the device's input configuration (channels, sample_rate)
\*   stream          the cpal input stream: "playing" or "dropped"
\*   writer          the Option<WavWriter> in the mutex: "some" or "none"
\*   writer_lock     holder of the writer mutex
\*   index_lock      holder of the sample_index mutex
\*   sample_index    the phase accumulator *index, in units of 1/sample_rate
\*   cb_pc           where the device callback is
\*   batch           the frames of the batch the callback was invoked with
\*   frames_in       history: frames the resampling loop has processed
\*   written         history: samples written to the writer
\*   sink_samples    the samples in the writer, each named by the number of
\*                   the input frame it was made from
\*   dropped         history: batches dropped because try_lock failed
\*   finalize_pc     where the worker is after its poll loop
VARIABLES config, stream, writer, writer_lock, index_lock, sample_index, cb_pc,
          batch, frames_in, written, sink_samples, dropped, finalize_pc

\* One call of WhisperTranscriber::decode (whisper.rs:185-250), its token loop:
\*   tokens          the length of the token vector
\*   loop_i          the loop variable i of `for i in 0..sample_len`
\*   eot_at          the iteration at which the decoder's best token is the
\*                   end-of-transcript token (decided by the audio and weights)
\*   decode_pc       where the call is
\*   decode_result   what the call returned
VARIABLES tokens, loop_i, eot_at, decode_pc, decode_result

\* One run of the poll loop of record_to_file_cancellable (recorder.rs:58-72):
\*   max_duration_secs   the Option<u64> argument (NoMax is None)
\*   flag_shared         whether another thread holds the stop flag (it does
\*                       not when record_to_file made the flag, line 21)
\*   loop_flag           the stop flag
\*   elapsed             start.elapsed().as_secs()
\*   loop_pc             "polling" in the loop, "left" after it
VARIABLES max_duration_secs, flag_shared, loop_flag, elapsed, loop_pc

\* The downloader (models/downloader.rs) and the rest of a ModelRecord:
\*   reg_status    ModelRecord.status of each model (types.rs:10-16), without
\*                 the numbers of Downloading and the text of Failed
\*   model_file    whether the file at the model's final path exists
\*   part_file     the model's .part file: "none", "partial" while chunks
\*                 are written, "complete" once flushed
\*   download_pc   where the task spawned by start_download stands
\*   downloads     how many download tasks have been spawned
VARIABLES reg_status, model_file, part_file, download_pc, downloads

\* History of the vocabulary commands:
\*   vocabulary_op   the last add_vocabulary_word or remove_vocabulary_word
\*                   call: its name, its word and whether the list held the
\*                   word when it was called
VARIABLES vocabulary_op

rec_vars == <<recording, stop_flag, worker, worker_result, sink, session_path,
              next_session, clock, call_pc, call_sess, ret, since_stop>>

cache_vars == <<capability, reg_path, reg_ops, active_whisper_model,
                active_llm_model, pref_epoch, changes_done, set_pc, set_arg,
                transcriber_cache, cache_lock, formatter_cache, server,
                preload, req, prev, vocabulary>>

engine_vars == <<audio_path, transcribe_pc, audio_data, padded_audio,
                 decode_calls, text, transcribe_result>>

capture_vars == <<config, stream, writer, writer_lock, index_lock, sample_index,
                  cb_pc, batch, frames_in, written, sink_samples, dropped,
                  finalize_pc>>

decode_vars == <<tokens, loop_i, eot_at, decode_pc, decode_result>>

loop_vars == <<max_duration_secs, flag_shared, loop_flag, elapsed, loop_pc>>

download_vars == <<reg_status, model_file, part_file, download_pc, downloads>>

vocabulary_vars == <<vocabulary_op>>

vars == <<rec_vars, cache_vars, engine_vars, capture_vars, decode_vars, loop_vars, download_vars, vocabulary_vars>>

\* ret[c]: the command, its result, the session whose path it returned (Stop),
\* the session it found in the slot when it locked it (0: none) and the
\* value of since_stop at that moment
NoRet == [op |-> "none", result |-> "none", sess |-> 0, found |-> 0,
          since |-> "none"]

\* A worker thread that has been spawned and has not yet returned.
Alive(s) == worker[s] \in {"starting", "polling", "finalizing"}

(***************************************************************************)
(* start_recording_toggle, main.rs:513-551.  First half: the wall clock   *)
(* is read (SystemTime::now().as_secs(), lines 517-520; it has stayed in   *)
(* the same second or advanced since it was last read), the path is named  *)
(* after that second, a fresh stop flag (false) is allocated and the       *)
(* worker thread is spawned (lines 531-541).  The recording slot is not    *)
(* consulted.                                                              *)
(***************************************************************************)
start_recording_toggle_spawn(c) ==
    /\ call_pc[c] = "idle"
    /\ next_session <= MaxSessions
    /\ \E now \in clock..MaxClock :
        /\ clock' = now
        /\ session_path' = [session_path EXCEPT ![next_session] = now]
    /\ LET s == next_session IN
        /\ stop_flag' = [stop_flag EXCEPT ![s] = FALSE]
        /\ worker' = [worker EXCEPT ![s] = "starting"]
        /\ call_sess' = [call_sess EXCEPT ![c] = s]
    /\ next_session' = next_session + 1
    /\ call_pc' = [call_pc EXCEPT ![c] = "start_install"]
    /\ UNCHANGED <<recording, worker_result, sink, ret, since_stop>>

(***************************************************************************)
(* start_recording_toggle, second half (main.rs:543-550): lock the slot,   *)
(* store the new RecordingState over whatever the slot holds, return Ok.   *)
(***************************************************************************)
start_recording_toggle_install(c) ==
    /\ call_pc[c] = "start_install"
    /\ LET s == call_sess[c] IN
        /\ recording' = [path |-> session_path[s], sess |-> s]
        /\ ret' = [ret EXCEPT ![c] =
                     [op |-> "start", result |-> "Ok", sess |-> s,
                      found |-> recording.sess, since |-> since_stop]]
    /\ since_stop' = "started"
    /\ call_pc' = [call_pc EXCEPT ![c] = "idle"]
    /\ call_sess' = [call_sess EXCEPT ![c] = 0]
    /\ UNCHANGED <<stop_flag, worker, worker_result, sink, session_path,
                   next_session, clock>>

(***************************************************************************)
(* stop_recording, main.rs:554-576.  First half (lines 555-564): under the *)
(* lock, take() the slot; None returns Err("No active recording");         *)
(* otherwise the stop flag is set and the lock is dropped before the join. *)
(***************************************************************************)
stop_recording_take_keep(c) ==
    \* the slot read with as_ref()/clone instead of take(): it stays occupied
    /\ call_pc[c] = "idle"
    /\ IF recording = NoRecording
       THEN /\ ret' = [ret EXCEPT ![c] =
                         [op |-> "stop", result |-> "ActiveSessionConflict",
                          sess |-> 0, found |-> 0, since |-> since_stop]]
            /\ UNCHANGED <<recording, stop_flag, call_pc, call_sess, since_stop>>
       ELSE /\ recording' = recording
            /\ stop_flag' = [stop_flag EXCEPT ![recording.sess] = TRUE]
            /\ call_pc' = [call_pc EXCEPT ![c] = "stop_join"]
            /\ call_sess' = [call_sess EXCEPT ![c] = recording.sess]
            /\ since_stop' = "clean"
            /\ UNCHANGED ret
    /\ UNCHANGED <<worker, worker_result, sink, session_path, next_session, clock>>

stop_recording_take(c) ==
    /\ call_pc[c] = "idle"
    /\ IF recording = NoRecording
       THEN /\ ret' = [ret EXCEPT ![c] =
                         [op |-> "stop", result |-> "ActiveSessionConflict",
                          sess |-> 0, found |-> 0, since |-> since_stop]]
            /\ UNCHANGED <<recording, stop_flag, call_pc, call_sess, since_stop>>
       ELSE /\ recording' = NoRecording
            /\ stop_flag' = [stop_flag EXCEPT ![recording.sess] = TRUE]
            /\ call_pc' = [call_pc EXCEPT ![c] = "stop_join"]
            /\ call_sess' = [call_sess EXCEPT ![c] = recording.sess]
            /\ since_stop' = "clean"
            /\ UNCHANGED ret
    /\ UNCHANGED <<worker, worker_result, sink, session_path, next_session, clock>>

(***************************************************************************)
(* stop_recording, second half (main.rs:566-572): join the worker thread,  *)
(* then return the path of the taken RecordingState.  The worker's own     *)
(* result was consumed inside the thread (main.rs:538-540), so the join    *)
(* succeeds whatever record_to_file_cancellable returned.                  *)
(***************************************************************************)
stop_recording_join(c) ==
    /\ call_pc[c] = "stop_join"
    /\ worker[call_sess[c]] = "exited"
    /\ ret' = [ret EXCEPT ![c] =
                 [op |-> "stop", result |-> "Ok", sess |-> call_sess[c],
                  found |-> call_sess[c], since |-> since_stop]]
    /\ call_pc' = [call_pc EXCEPT ![c] = "idle"]
    /\ call_sess' = [call_sess EXCEPT ![c] = 0]
    /\ UNCHANGED <<recording, stop_flag, worker, worker_result, sink,
                   session_path, next_session, clock, since_stop>>

(***************************************************************************)
(* AudioRecorder::record_to_file_cancellable, recorder.rs:25-82, run by    *)
(* the worker thread.  Opening (lines 26-56): the default input device,    *)
(* its configuration, the WAV writer and the input stream, in this order;  *)
(* each may fail and `?` returns the error to the thread's closure, which  *)
(* prints it (main.rs:538-540).                                            *)
(***************************************************************************)
OpenOutcomes == {"Ok", "DeviceUnavailable", "SinkIOError", "StreamFormatUnsupported"}

record_open(s) ==
    /\ worker[s] = "starting"
    /\ \E o \in OpenOutcomes :
        CASE o = "Ok" ->
                /\ sink' = [sink EXCEPT ![s] = "open"]
                /\ worker' = [worker EXCEPT ![s] = "polling"]
                /\ UNCHANGED worker_result
          [] o = "StreamFormatUnsupported" ->
                \* the writer was created at line 40 and is dropped by the
                \* early return at line 53; finalize() at line 78 is not run
                /\ sink' = [sink EXCEPT ![s] = "abandoned"]
                /\ worker' = [worker EXCEPT ![s] = "exited"]
                /\ worker_result' = [worker_result EXCEPT ![s] = o]
          [] OTHER ->
                \* no device (line 29) or WavWriter::create failed (line 40)
                /\ worker' = [worker EXCEPT ![s] = "exited"]
                /\ worker_result' = [worker_result EXCEPT ![s] = o]
                /\ UNCHANGED sink
    /\ UNCHANGED <<recording, stop_flag, session_path, next_session, clock,
                   call_pc, call_sess, ret, since_stop>>

(***************************************************************************)
(* The poll loop, recorder.rs:60-72, with max_duration_secs = None as      *)
(* start_recording_toggle passes it: after each sleep the stop flag is     *)
(* read, and the loop ends when it is set.                                 *)
(***************************************************************************)
record_poll_no_flag(s) ==
    \* the loop with only its max-duration test, which None never meets
    /\ worker[s] = "polling"
    /\ UNCHANGED worker
    /\ UNCHANGED <<recording, stop_flag, worker_result, sink, session_path,
                   next_session, clock, call_pc, call_sess, ret, since_stop>>

record_poll(s) ==
    /\ worker[s] = "polling"
    /\ IF stop_flag[s]
       THEN worker' = [worker EXCEPT ![s] = "finalizing"]
       ELSE UNCHANGED worker
    /\ UNCHANGED <<recording, stop_flag, worker_result, sink, session_path,
                   next_session, clock, call_pc, call_sess, ret, since_stop>>

(***************************************************************************)
(* After the loop, recorder.rs:74-81: the stream is dropped and the writer *)
(* finalized; finalize() may fail (SinkIOError).                           *)
(***************************************************************************)
record_finalize(s) ==
    /\ worker[s] = "finalizing"
    /\ \E ok \in BOOLEAN :
        IF ok
        THEN /\ sink' = [sink EXCEPT ![s] = "finalized"]
             /\ worker_result' = [worker_result EXCEPT ![s] = "Ok"]
        ELSE /\ sink' = [sink EXCEPT ![s] = "abandoned"]
             /\ worker_result' = [worker_result EXCEPT ![s] = "SinkIOError"]
    /\ worker' = [worker EXCEPT ![s] = "exited"]
    /\ UNCHANGED <<recording, stop_flag, session_path, next_session, clock,
                   call_pc, call_sess, ret, since_stop>>

NextRecording ==
    \/ \E c \in Callers : start_recording_toggle_spawn(c) /\ UNCHANGED <<cache_vars, engine_vars, capture_vars, decode_vars, loop_vars, download_vars, vocabulary_vars>>
    \/ \E c \in Callers : start_recording_toggle_install(c) /\ UNCHANGED <<cache_vars, engine_vars, capture_vars, decode_vars, loop_vars, download_vars, vocabulary_vars>>
    \/ \E c \in Callers : stop_recording_take(c) /\ UNCHANGED <<cache_vars, engine_vars, capture_vars, decode_vars, loop_vars, download_vars, vocabulary_vars>>
    \/ \E c \in Callers : stop_recording_join(c) /\ UNCHANGED <<cache_vars, engine_vars, capture_vars, decode_vars, loop_vars, download_vars, vocabulary_vars>>
    \/ \E s \in Sessions : record_open(s) /\ UNCHANGED <<cache_vars, engine_vars, capture_vars, decode_vars, loop_vars, download_vars, vocabulary_vars>>
    \/ \E s \in Sessions : record_poll(s) /\ UNCHANGED <<cache_vars, engine_vars, capture_vars, decode_vars, loop_vars, download_vars, vocabulary_vars>>
    \/ \E s \in Sessions : record_finalize(s) /\ UNCHANGED <<cache_vars, engine_vars, capture_vars, decode_vars, loop_vars, download_vars, vocabulary_vars>>

(***************************************************************************)
(* Claims about the recording controller.                                  *)
(***************************************************************************)

\* C1: a Start that finds a Recording State in the slot is rejected with
\* ActiveSessionConflict and leaves the slot (path, flag, worker handle) as it
\* was; it spawns no worker.  Stated of the step in which Start locks the slot.
C1_StartWhileActiveRejected ==
    [][\A c \in Callers :
         (call_pc[c] = "start_install" /\ call_pc'[c] = "idle"
            /\ recording # NoRecording)
         => /\ ret'[c].result = "ActiveSessionConflict"
            /\ recording' = recording
            /\ Alive(call_sess[c]) = FALSE]_vars

\* C2: a Stop that finds no Recording State returns ActiveSessionConflict and
\* changes nothing (first conjunct); once a Stop has taken the Recording
\* State, the slot stays empty until a Start stores into it (second
\* conjunct), so every further Stop before such a Start is rejected, however
\* many there are.
C2_StopWhileIdleRejected ==
    /\ [][\A c \in Callers :
            (stop_recording_take(c) /\ recording = NoRecording)
            => /\ ret'[c].op = "stop"
               /\ ret'[c].result = "ActiveSessionConflict"
               /\ UNCHANGED <<recording, stop_flag, worker, worker_result, sink,
                              session_path, next_session, clock, call_pc,
                              call_sess, since_stop>>]_vars
    /\ [](since_stop = "clean" => recording = NoRecording)
    /\ [](\A c \in Callers :
            (ret[c].op = "stop" /\ ret[c].since = "clean" /\ ret[c].found = 0)
            => ret[c].result = "ActiveSessionConflict")

\* a Stop was rejected after an earlier Stop had succeeded, with no Start
\* stored in between
C2_Witness ==
    \E c \in Callers :
        /\ ret[c].op = "stop"
        /\ ret[c].result = "ActiveSessionConflict"
        /\ ret[c].since = "clean"

\* C3: at most one recording is in progress process-wide: at most one worker
\* thread (with its capture session and sink) is alive in any reachable state.
C3_AtMostOneRecording ==
    Cardinality({s \in Sessions : Alive(s)}) <= 1

\* C4: whenever Stop has returned a path, the worker of that session has
\* exited and has finalized the sink of that path.
C4_StopReturnsFinalized ==
    \A c \in Callers :
        (ret[c].op = "stop" /\ ret[c].result = "Ok")
        => /\ worker[ret[c].sess] = "exited"
           /\ sink[ret[c].sess] = "finalized"

(***************************************************************************)
(* Model registry (models/registry.rs) and preferences (preferences.rs).   *)
(***************************************************************************)
\* the catalog, in the priority order of the auto-selection
SpeechModels == <<"whisper-base-en", "whisper-small-en", "whisper-small">>
LlmModels == <<"gemma-2-2b-instruct", "qwen2-1.5b-instruct">>

Range(q) == {q[i] : i \in DOMAIN q}
Models == Range(SpeechModels) \cup Range(LlmModels)
Priority(cap) == IF cap = "speech" THEN SpeechModels ELSE LlmModels

\* Option::None as a preference (auto-selection) and as a resolution result
Auto == "auto"
NoModel == "no-model"

\* ModelRecord.path: "none" is None, "file" is Some(path of the installed
\* file), "empty" is Some(PathBuf::new()) as delete_model leaves it.
\* model.path.is_some(), the test every resolution in main.rs makes:
has_path(m) == reg_path[m] # "none"
\* the installation path of m exists
Installed(m) == reg_path[m] = "file"

\* The first model of a priority list whose record has a path
\* (main.rs:361-370, 432-439, 798-807, 841-847), NoModel if there is none.
RECURSIVE first_with_path(_)
first_with_path(q) ==
    IF q = <<>> THEN NoModel
    ELSE IF has_path(Head(q)) THEN Head(q) ELSE first_with_path(Tail(q))

\* What the specification asks of a resolution: the first model of the list
\* whose installation path exists.
RECURSIVE FirstInstalled(_)
FirstInstalled(q) ==
    IF q = <<>> THEN NoModel
    ELSE IF Installed(Head(q)) THEN Head(q) ELSE FirstInstalled(Tail(q))

Expected(cap, pref) ==
    IF pref = Auto THEN FirstInstalled(Priority(cap))
    ELSE IF Installed(pref) THEN pref ELSE NoModel

(***************************************************************************)
(* ModelDownloader::download_model (downloader.rs:24-58) run from its      *)
(* first line to its last with every step succeeding: the file is in       *)
(* place, the status is Installed and the path Some(model_path).           *)
(***************************************************************************)
download_model(m) ==
    /\ reg_ops < MaxRegistryOps
    /\ reg_path[m] # "file"
    /\ download_pc[m] = "idle"
    /\ reg_path' = [reg_path EXCEPT ![m] = "file"]
    /\ reg_status' = [reg_status EXCEPT ![m] = "Installed"]
    /\ model_file' = [model_file EXCEPT ![m] = TRUE]
    /\ reg_ops' = reg_ops + 1
    /\ UNCHANGED <<part_file, download_pc, downloads>>
    /\ UNCHANGED <<prev, vocabulary, capability, active_whisper_model, active_llm_model,
                   pref_epoch, changes_done, set_pc, set_arg, transcriber_cache,
                   cache_lock, formatter_cache, server, preload, req>>

(***************************************************************************)
(* ModelDownloader::delete_model (downloader.rs:127-142): the file is      *)
(* removed if it exists (lines 130-132), the status becomes NotInstalled   *)
(* (lines 134-136) and update_model_path stores Some(PathBuf::new())       *)
(* (lines 137-139, registry.rs:142-146), so the record keeps a path.       *)
(***************************************************************************)
delete_model(m) ==
    /\ reg_ops < MaxRegistryOps
    /\ model_file' = [model_file EXCEPT ![m] = FALSE]
    /\ reg_status' = [reg_status EXCEPT ![m] = "NotInstalled"]
    /\ reg_path' = [reg_path EXCEPT ![m] = "empty"]
    /\ reg_ops' = reg_ops + 1
    /\ UNCHANGED <<part_file, download_pc, downloads>>
    /\ UNCHANGED <<prev, vocabulary, capability, active_whisper_model, active_llm_model,
                   pref_epoch, changes_done, set_pc, set_arg, transcriber_cache,
                   cache_lock, formatter_cache, server, preload, req>>

\* the cache variables, which the download task leaves alone
download_cache_unchanged ==
    UNCHANGED <<prev, vocabulary, capability, reg_ops, active_whisper_model,
                active_llm_model, pref_epoch, changes_done, set_pc, set_arg,
                transcriber_cache, cache_lock, formatter_cache, server, preload, req>>

(***************************************************************************)
(* start_download (main.rs:287-312) spawns the task that runs              *)
(* download_model and returns; an error of the task is printed and         *)
(* emitted as an event (lines 298-308), the registry is not touched.       *)
(***************************************************************************)
start_download(m) ==
    /\ downloads < MaxDownloads
    /\ download_pc[m] \in {"idle", "returned_ok", "returned_err"}
    /\ download_pc' = [download_pc EXCEPT ![m] = "send"]
    /\ downloads' = downloads + 1
    /\ UNCHANGED <<reg_path, reg_status, model_file, part_file>>
    /\ download_cache_unchanged

(***************************************************************************)
(* download_model up to the first chunk (downloader.rs:31-41, 68-76): the  *)
(* record is read, the directory made, the request sent and the .part      *)
(* file created; any of them may fail, and the error returns through `?`.  *)
(***************************************************************************)
download_file_send(m) ==
    /\ download_pc[m] = "send"
    /\ \E sent \in BOOLEAN, created \in BOOLEAN :
        IF sent /\ created
        THEN /\ part_file' = [part_file EXCEPT ![m] = "partial"]
             /\ download_pc' = [download_pc EXCEPT ![m] = "chunks"]
        ELSE /\ part_file' = part_file
             /\ download_pc' = [download_pc EXCEPT ![m] = "returned_err"]
    /\ UNCHANGED <<reg_path, reg_status, model_file, downloads>>
    /\ download_cache_unchanged

(***************************************************************************)
(* One turn of the chunk loop (downloader.rs:80-113): a chunk that arrived *)
(* and was written sets the status to Downloading (lines 92-101); one that *)
(* did not returns the error through `?` (lines 81-82).                    *)
(***************************************************************************)
download_file_chunk(m) ==
    /\ download_pc[m] = "chunks"
    /\ \E received \in BOOLEAN :
        IF received
        THEN /\ reg_status' = [reg_status EXCEPT ![m] = "Downloading"]
             /\ download_pc' = download_pc
        ELSE /\ reg_status' = reg_status
             /\ download_pc' = [download_pc EXCEPT ![m] = "returned_err"]
    /\ UNCHANGED <<reg_path, model_file, part_file, downloads>>
    /\ download_cache_unchanged

(***************************************************************************)
(* The end of the stream (downloader.rs:115-124): the .part file is        *)
(* flushed and renamed to the final path; either may fail.                 *)
(***************************************************************************)
download_file_rename(m) ==
    /\ download_pc[m] = "chunks"
    /\ \E flushed \in BOOLEAN, renamed \in BOOLEAN :
        IF flushed /\ renamed
        THEN /\ part_file' = [part_file EXCEPT ![m] = "none"]
             /\ model_file' = [model_file EXCEPT ![m] = TRUE]
             /\ download_pc' = [download_pc EXCEPT ![m] = "status"]
        ELSE /\ part_file' = [part_file EXCEPT ![m] =
                                 IF flushed THEN "complete" ELSE "partial"]
             /\ model_file' = model_file
             /\ download_pc' = [download_pc EXCEPT ![m] = "returned_err"]
    /\ UNCHANGED <<reg_path, reg_status, downloads>>
    /\ download_cache_unchanged

\* update_model_status(Installed), downloader.rs:44-46
download_model_status(m) ==
    /\ download_pc[m] = "status"
    /\ reg_status' = [reg_status EXCEPT ![m] = "Installed"]
    /\ download_pc' = [download_pc EXCEPT ![m] = "path"]
    /\ UNCHANGED <<reg_path, model_file, part_file, downloads>>
    /\ download_cache_unchanged

\* update_model_path(model_path), downloader.rs:47, and the return
download_model_path(m) ==
    /\ download_pc[m] = "path"
    /\ reg_path' = [reg_path EXCEPT ![m] = "file"]
    /\ download_pc' = [download_pc EXCEPT ![m] = "returned_ok"]
    /\ UNCHANGED <<reg_status, model_file, part_file, downloads>>
    /\ download_cache_unchanged

(***************************************************************************)
(* Engines.  A WhisperTranscriber holds the model path it was built from   *)
(* (whisper.rs:34-41); epoch is history: the preference save its loader    *)
(* had seen.  An LlmFormatter is named by the thread that built it: the    *)
(* preload thread k is formatter k, the request r formatter ReqFormatter(r).*)
(***************************************************************************)
NoEngine == [model |-> "none", epoch |-> -1]
NoFormatter == -1

Reqs == {"r1"}
Preloads == 0..MaxPrefChanges
ReqFormatter(r) == MaxPrefChanges + 1
Formatters == 0..(MaxPrefChanges + 1)


(***************************************************************************)
(* set_active_whisper_model (main.rs:329-391).  First the preference is    *)
(* saved (lines 334-338): PreferencesManager::set_active_whisper_model     *)
(* assigns the field of the in-memory preferences and then writes the file *)
(* (preferences.rs:58-63); when the write fails the error returns through  *)
(* `?` and the command ends there.                                         *)
(***************************************************************************)
set_active_whisper_model_save ==
    /\ capability = "speech"
    /\ set_pc = "idle"
    /\ pref_epoch < MaxPrefChanges
    /\ \E m \in {Auto} \cup Range(SpeechModels), saved \in BOOLEAN :
        /\ active_whisper_model' = m
        /\ IF saved
           THEN /\ set_arg' = m
                /\ pref_epoch' = pref_epoch + 1
                /\ set_pc' = "clear"
           ELSE /\ UNCHANGED <<set_arg, pref_epoch, set_pc>>
    /\ req' = [r \in Reqs |->
                 IF req[r].pc = "using" THEN [req[r] EXCEPT !.overlap = TRUE]
                 ELSE req[r]]
    /\ UNCHANGED <<prev, vocabulary, capability, reg_path, reg_ops, active_llm_model, changes_done,
                   transcriber_cache, cache_lock, formatter_cache, server, preload>>

(***************************************************************************)
(* Then the cache is cleared under its lock (lines 341-345) and the        *)
(* preload thread is spawned with the model_id argument (lines 348-352).   *)
(***************************************************************************)
set_active_whisper_model_clear ==
    /\ capability = "speech"
    /\ set_pc = "clear"
    /\ cache_lock \in {"free", "poisoned"}
    /\ IF cache_lock = "poisoned"
       THEN \* lock().unwrap() panics on a poisoned mutex (line 343)
            UNCHANGED <<transcriber_cache, preload, changes_done>>
       ELSE /\ transcriber_cache' = NoEngine
            /\ preload' = [preload EXCEPT ![pref_epoch] =
                             [pc |-> "resolve", arg |-> set_arg, engine |-> NoEngine]]
            /\ changes_done' = pref_epoch
    /\ set_pc' = "idle"
    /\ UNCHANGED <<prev, vocabulary, capability, reg_path, reg_ops, active_whisper_model,
                   active_llm_model, pref_epoch, set_arg, cache_lock,
                   formatter_cache, server, req>>

(***************************************************************************)
(* The Whisper preload threads: the startup thread (main.rs:791-826,       *)
(* thread 0, which always auto-selects) and the thread of each             *)
(* set_active_whisper_model (main.rs:352-388).  The thread resolves its    *)
(* model, reads its path and builds the transcriber.                       *)
(***************************************************************************)
whisper_preload_resolve(k) ==
    /\ capability = "speech"
    /\ preload[k].pc = "resolve"
    /\ LET id == IF preload[k].arg # Auto THEN preload[k].arg
                 ELSE first_with_path(SpeechModels)
       IN IF id # NoModel /\ has_path(id)
          THEN preload' = [preload EXCEPT ![k].pc = "store",
                                          ![k].engine = [model |-> id, epoch |-> k]]
          ELSE preload' = [preload EXCEPT ![k].pc = "done"]
    /\ UNCHANGED <<prev, vocabulary, capability, reg_path, reg_ops, active_whisper_model,
                   active_llm_model, pref_epoch, changes_done, set_pc, set_arg,
                   transcriber_cache, cache_lock, formatter_cache, server, req>>

\* *cache_clone.lock().unwrap() = Some(transcriber)  (main.rs:380, 816)
\* (lock().unwrap() panics on a poisoned mutex and the thread ends)
whisper_preload_store(k) ==
    /\ capability = "speech"
    /\ preload[k].pc = "store"
    /\ cache_lock \in {"free", "poisoned"}
    /\ transcriber_cache' = IF cache_lock = "poisoned" THEN transcriber_cache
                            ELSE preload[k].engine
    /\ preload' = [preload EXCEPT ![k].pc = "done"]
    /\ UNCHANGED <<prev, vocabulary, capability, reg_path, reg_ops, active_whisper_model,
                   active_llm_model, pref_epoch, changes_done, set_pc, set_arg,
                   cache_lock, formatter_cache, server, req>>

(***************************************************************************)
(* transcribe_audio (main.rs:609-687).  Resolution, lines 611-659: the     *)
(* preferences are read, the model id is chosen and its path is read;      *)
(* a missing path returns the error before anything else is done; then the *)
(* vocabulary is read and the priming text built.                          *)
(***************************************************************************)
\* lines 626-640
transcribe_auto_select ==
    IF has_path("whisper-base-en") THEN "whisper-base-en"
    ELSE IF has_path("whisper-small-en") THEN "whisper-small-en"
    ELSE "whisper-small"

\* lines 613-649: the resolved model id, NoModel when the request returns Err
transcribe_model_id(pref) ==
    IF pref # Auto
    THEN IF has_path(pref) THEN pref ELSE NoModel
    ELSE IF has_path(transcribe_auto_select) THEN transcribe_auto_select
         ELSE NoModel

\* Option::None as the prompt of a request
NoPrompt == <<>>

\* lines 652-659: the priming text made of the word list, None when the list
\* is empty
transcribe_prompt(words) ==
    IF words = <<>> THEN NoPrompt ELSE <<"Custom vocabulary: ">> \o words

NewReq == [pc |-> "idle", pref |-> Auto, model |-> NoModel, expect |-> NoModel,
           after |-> 0, engine |-> NoEngine, formatter |-> NoFormatter,
           used |-> NoEngine, result |-> "none", opened |-> FALSE,
           built |-> FALSE, overlap |-> FALSE, prompt |-> NoPrompt,
           call |-> "none"]

\* transcribe_audio keeping the priming text of the request before it
transcribe_audio_resolve_kept_prompt(r) ==
    /\ capability = "speech"
    /\ req[r].pc = "idle"
    /\ LET id == transcribe_model_id(active_whisper_model)
           seen == [req[r] EXCEPT !.pref = active_whisper_model,
                                  !.model = id,
                                  !.expect = Expected("speech", active_whisper_model),
                                  !.after = changes_done]
       IN IF id = NoModel
          THEN req' = [req EXCEPT ![r] =
                         [seen EXCEPT !.pc = "done", !.result = "ModelUnavailable"]]
          ELSE req' = [req EXCEPT ![r] =
                         [seen EXCEPT !.pc = "resolved",
                                      !.prompt = IF prev.pc = "done"
                                                 THEN prev.prompt
                                                 ELSE transcribe_prompt(vocabulary)]]
    /\ UNCHANGED <<prev, vocabulary, capability, reg_path, reg_ops, active_whisper_model,
                   active_llm_model, pref_epoch, changes_done, set_pc, set_arg,
                   transcriber_cache, cache_lock, formatter_cache, server, preload>>


transcribe_audio_resolve(r) ==
    /\ capability = "speech"
    /\ req[r].pc = "idle"
    /\ LET id == transcribe_model_id(active_whisper_model)
           seen == [req[r] EXCEPT !.pref = active_whisper_model,
                                  !.model = id,
                                  !.expect = Expected("speech", active_whisper_model),
                                  !.after = changes_done]
       IN IF id = NoModel
          THEN req' = [req EXCEPT ![r] =
                         [seen EXCEPT !.pc = "done", !.result = "ModelUnavailable"]]
          ELSE req' = [req EXCEPT ![r] =
                         [seen EXCEPT !.pc = "resolved",
                                      !.prompt = transcribe_prompt(vocabulary)]]
    /\ UNCHANGED <<prev, vocabulary, capability, reg_path, reg_ops, active_whisper_model,
                   active_llm_model, pref_epoch, changes_done, set_pc, set_arg,
                   transcriber_cache, cache_lock, formatter_cache, server, preload>>

(***************************************************************************)
(* Lines 661-674: the cache mutex is locked; an empty cache is filled with *)
(* a transcriber built from the request's model path; the request then     *)
(* works on a reference into the cache and keeps the guard until it        *)
(* returns.                                                                *)
(***************************************************************************)
transcribe_audio_lock_released(r) ==
    \* the guard dropped before the transcriber is used
    /\ capability = "speech"
    /\ req[r].pc = "resolved"
    /\ cache_lock = "free"
    /\ LET e == IF transcriber_cache = NoEngine
                THEN [model |-> req[r].model, epoch |-> pref_epoch]
                ELSE transcriber_cache
       IN /\ transcriber_cache' = e
          /\ req' = [req EXCEPT ![r].pc = "using", ![r].engine = e,
                                ![r].built = (transcriber_cache = NoEngine)]
    /\ cache_lock' = "free"
    /\ UNCHANGED <<prev, vocabulary, capability, reg_path, reg_ops, active_whisper_model,
                   active_llm_model, pref_epoch, changes_done, set_pc, set_arg,
                   formatter_cache, server, preload>>

transcribe_audio_lock(r) ==
    /\ capability = "speech"
    /\ req[r].pc = "resolved"
    /\ cache_lock \in {"free", "poisoned"}
    /\ IF cache_lock = "poisoned"
       THEN \* lock().unwrap() panics on a poisoned mutex (line 662)
            /\ req' = [req EXCEPT ![r].pc = "done", ![r].result = "Panic"]
            /\ UNCHANGED <<transcriber_cache, cache_lock>>
       ELSE /\ LET e == IF transcriber_cache = NoEngine
                        THEN [model |-> req[r].model, epoch |-> pref_epoch]
                        ELSE transcriber_cache
               IN /\ transcriber_cache' = e
                  /\ req' = [req EXCEPT ![r].pc = "using", ![r].engine = e,
                                        ![r].built = (transcriber_cache = NoEngine)]
            /\ cache_lock' = r
    /\ UNCHANGED <<prev, vocabulary, capability, reg_path, reg_ops, active_whisper_model,
                   active_llm_model, pref_epoch, changes_done, set_pc, set_arg,
                   formatter_cache, server, preload>>

\* WhisperTranscriber::transcribe seen from its caller (whisper.rs:43-77):
\* the artifact is opened and loaded, then the weights are loaded from the
\* transcriber's model path, then the audio is decoded.  `loaded` and
\* `decoded` say whether the artifact and the decode were good.
transcribe_outcome(loaded, weights, decoded) ==
    IF ~loaded THEN "AudioFailure"
    ELSE IF ~weights THEN "DecodeInitFailure"
    ELSE IF ~decoded THEN "DecodeFailure"
    ELSE "Ok"

(***************************************************************************)
(* Lines 674-686: the transcriber in the cache is used on the artifact,    *)
(* through transcribe_with_prompt when there is a priming text and through *)
(* transcribe when there is none, and the result returned; the guard is    *)
(* dropped on return.  When the artifact has a sample that cannot be read  *)
(* load_audio panics (whisper.rs:270, 273): the guard is dropped by the    *)
(* unwinding and the mutex is left poisoned.                               *)
(***************************************************************************)
transcribe_audio_finish(r) ==
    /\ capability = "speech"
    /\ req[r].pc = "using"
    /\ \E good \in BOOLEAN, corrupt \in BOOLEAN :
        /\ req' = [req EXCEPT ![r].pc = "done",
                              ![r].used = transcriber_cache,
                              ![r].opened = TRUE,
                              ![r].call = IF req[r].prompt # NoPrompt
                                          THEN "transcribe_with_prompt"
                                          ELSE "transcribe",
                              ![r].result =
                                  IF transcriber_cache = NoEngine \/ corrupt
                                  THEN "Panic"
                                  ELSE transcribe_outcome(good,
                                           Installed(transcriber_cache.model), good)]
        /\ cache_lock' = IF corrupt THEN "poisoned" ELSE "free"
    /\ UNCHANGED <<prev, vocabulary, capability, reg_path, reg_ops, active_whisper_model,
                   active_llm_model, pref_epoch, changes_done, set_pc, set_arg,
                   transcriber_cache, formatter_cache, server, preload>>

(***************************************************************************)
(* set_active_llm_model (main.rs:394-461): save the preference (lines      *)
(* 399-403; the in-memory field is assigned before the file is written,    *)
(* preferences.rs:65-70, and a failed write returns the error), then clear *)
(* the formatter cache under its lock and spawn the preload thread (lines  *)
(* 406-417).                                                               *)
(***************************************************************************)
set_active_llm_model_save ==
    /\ capability = "format"
    /\ set_pc = "idle"
    /\ pref_epoch < MaxPrefChanges
    /\ \E m \in {Auto} \cup Range(LlmModels), saved \in BOOLEAN :
        /\ active_llm_model' = m
        /\ IF saved
           THEN /\ set_arg' = m
                /\ pref_epoch' = pref_epoch + 1
                /\ set_pc' = "clear"
           ELSE /\ UNCHANGED <<set_arg, pref_epoch, set_pc>>
    /\ req' = [r \in Reqs |->
                 IF req[r].pc = "using" THEN [req[r] EXCEPT !.overlap = TRUE]
                 ELSE req[r]]
    /\ UNCHANGED <<prev, vocabulary, capability, reg_path, reg_ops, active_whisper_model,
                   changes_done, transcriber_cache, cache_lock, formatter_cache,
                   server, preload>>

set_active_llm_model_clear ==
    /\ capability = "format"
    /\ set_pc = "clear"
    /\ formatter_cache' = NoFormatter
    /\ preload' = [preload EXCEPT ![pref_epoch] =
                     [pc |-> "resolve", arg |-> set_arg, engine |-> NoEngine]]
    /\ changes_done' = pref_epoch
    /\ set_pc' = "idle"
    /\ req' = [r \in Reqs |->
                 IF req[r].pc = "using" THEN [req[r] EXCEPT !.overlap = TRUE]
                 ELSE req[r]]
    /\ UNCHANGED <<prev, vocabulary, capability, reg_path, reg_ops, active_whisper_model,
                   active_llm_model, pref_epoch, set_arg, transcriber_cache,
                   cache_lock, server>>

(***************************************************************************)
(* The LLM preload threads: the startup thread (main.rs:833-870, thread 0, *)
(* auto-selection only) and the thread of each set_active_llm_model        *)
(* (main.rs:417-458).  The thread resolves its model, builds an            *)
(* LlmFormatter (which fails when the llama-server binary is not found,    *)
(* llm_formatter.rs:13-52) and starts its server on the model              *)
(* (llm_formatter.rs:54-90, which fails when the process cannot be         *)
(* spawned); only then is there something to store.                        *)
(***************************************************************************)
llm_preload_resolve(k) ==
    /\ capability = "format"
    /\ preload[k].pc = "resolve"
    /\ LET id == IF preload[k].arg # Auto
                 THEN IF has_path(preload[k].arg) THEN preload[k].arg ELSE NoModel
                 ELSE first_with_path(LlmModels)
       IN \E built \in BOOLEAN, started \in BOOLEAN :
            IF id # NoModel /\ built /\ started
            THEN /\ preload' = [preload EXCEPT ![k].pc = "store"]
                 /\ server' = [server EXCEPT ![k] = id]
            ELSE /\ preload' = [preload EXCEPT ![k].pc = "done"]
                 /\ UNCHANGED server
    /\ UNCHANGED <<prev, vocabulary, capability, reg_path, reg_ops, active_whisper_model,
                   active_llm_model, pref_epoch, changes_done, set_pc, set_arg,
                   transcriber_cache, cache_lock, formatter_cache, req>>

\* *cache_clone.lock().unwrap() = Some(Arc::new(formatter))  (main.rs:450, 860)
llm_preload_store(k) ==
    /\ capability = "format"
    /\ preload[k].pc = "store"
    /\ formatter_cache' = k
    /\ preload' = [preload EXCEPT ![k].pc = "done"]
    /\ UNCHANGED <<prev, vocabulary, capability, reg_path, reg_ops, active_whisper_model,
                   active_llm_model, pref_epoch, changes_done, set_pc, set_arg,
                   transcriber_cache, cache_lock, server, req>>

(***************************************************************************)
(* format_transcript (main.rs:690-760).  Resolution, lines 696-734.        *)
(***************************************************************************)
format_model_id(pref) ==
    IF pref # Auto
    THEN IF has_path(pref) THEN pref ELSE NoModel
    ELSE IF has_path("gemma-2-2b-instruct") THEN "gemma-2-2b-instruct"
    ELSE IF has_path("qwen2-1.5b-instruct") THEN "qwen2-1.5b-instruct"
    ELSE NoModel

format_transcript_resolve(r) ==
    /\ capability = "format"
    /\ req[r].pc = "idle"
    /\ LET id == format_model_id(active_llm_model)
           seen == [req[r] EXCEPT !.pref = active_llm_model,
                                  !.model = id,
                                  !.expect = Expected("format", active_llm_model),
                                  !.after = changes_done]
       IN IF id = NoModel
          THEN req' = [req EXCEPT ![r] =
                         [seen EXCEPT !.pc = "done", !.result = "ModelUnavailable"]]
          ELSE req' = [req EXCEPT ![r] = [seen EXCEPT !.pc = "resolved"]]
    /\ UNCHANGED <<prev, vocabulary, capability, reg_path, reg_ops, active_whisper_model,
                   active_llm_model, pref_epoch, changes_done, set_pc, set_arg,
                   transcriber_cache, cache_lock, formatter_cache, server, preload>>

(***************************************************************************)
(* Lines 738-750: under the lock an empty cache is filled with a new       *)
(* LlmFormatter (whose construction may fail, returning the error with the *)
(* cache still empty); the Arc is cloned and the lock dropped.             *)
(***************************************************************************)
format_transcript_lock(r) ==
    /\ capability = "format"
    /\ req[r].pc = "resolved"
    /\ IF formatter_cache = NoFormatter
       THEN \E built \in BOOLEAN :
              IF built
              THEN /\ formatter_cache' = ReqFormatter(r)
                   /\ req' = [req EXCEPT ![r].pc = "using",
                                         ![r].formatter = ReqFormatter(r),
                                         ![r].built = TRUE]
              ELSE /\ req' = [req EXCEPT ![r].pc = "done",
                                         ![r].result = "FormatterInitFailure"]
                   /\ UNCHANGED formatter_cache
       ELSE /\ req' = [req EXCEPT ![r].pc = "using",
                                  ![r].formatter = formatter_cache]
            /\ UNCHANGED formatter_cache
    /\ UNCHANGED <<prev, vocabulary, capability, reg_path, reg_ops, active_whisper_model,
                   active_llm_model, pref_epoch, changes_done, set_pc, set_arg,
                   transcriber_cache, cache_lock, server, preload>>

(***************************************************************************)
(* Lines 752-759 with LlmFormatter::generate (llm_formatter.rs:118-155):   *)
(* the request's formatter starts its server on the request's model path   *)
(* unless it already runs one (llm_formatter.rs:54-61), then the           *)
(* completion request is sent; either may fail.                            *)
(***************************************************************************)
format_transcript_finish(r) ==
    /\ capability = "format"
    /\ req[r].pc = "using"
    /\ LET f == req[r].formatter IN
       \E started \in BOOLEAN, answered \in BOOLEAN :
          /\ server' = IF server[f] = "none" /\ started
                       THEN [server EXCEPT ![f] = req[r].model]
                       ELSE server
          /\ req' = [req EXCEPT ![r].pc = "done",
                                ![r].result =
                                    IF server[f] = "none" /\ ~started
                                    THEN "ServerStartFailure"
                                    ELSE IF answered THEN "Ok"
                                    ELSE "CompletionFailure"]
    /\ UNCHANGED <<prev, vocabulary, capability, reg_path, reg_ops, active_whisper_model,
                   active_llm_model, pref_epoch, changes_done, set_pc, set_arg,
                   transcriber_cache, cache_lock, formatter_cache, preload>>

(***************************************************************************)
(* The command is invoked again once it has returned (invoke_handler,      *)
(* main.rs:970-988): a new run of transcribe_audio or format_transcript.   *)
(***************************************************************************)
request_again(r) ==
    /\ req[r].pc = "done"
    /\ prev.pc = "idle"
    /\ prev' = req[r]
    /\ req' = [req EXCEPT ![r] = NewReq]
    /\ UNCHANGED <<vocabulary, capability, reg_path, reg_ops, active_whisper_model,
                   active_llm_model, pref_epoch, changes_done, set_pc, set_arg,
                   transcriber_cache, cache_lock, formatter_cache, server, preload>>

(***************************************************************************)
(* The vocabulary commands (main.rs:463-484, preferences.rs:72-91).        *)
(***************************************************************************)
Words == {"w1", "w2"}
NoVocabularyOp == [op |-> "none", word |-> "none", present |-> FALSE]
\* the lists add_vocabulary_word can build: no word twice
WordLists == {l \in UNION {[1..n -> Words] : n \in 0..Cardinality(Words)} :
                \A i, j \in DOMAIN l : l[i] = l[j] => i = j}

\* retain(|w| w != &word)
RECURSIVE retain(_, _)
retain(words, word) ==
    IF words = <<>> THEN <<>>
    ELSE IF Head(words) = word THEN retain(Tail(words), word)
    ELSE <<Head(words)>> \o retain(Tail(words), word)

\* add_vocabulary_word pushing the word without looking for it in the list
add_vocabulary_word_push(word) ==
    /\ vocabulary' = Append(vocabulary, word)
    /\ vocabulary_op' = [op |-> "add", word |-> word,
                         present |-> word \in Range(vocabulary)]
    /\ UNCHANGED <<prev, capability, reg_path, reg_ops, active_whisper_model,
                   active_llm_model, pref_epoch, changes_done, set_pc, set_arg,
                   transcriber_cache, cache_lock, formatter_cache, server,
                   preload, req>>

\* preferences.rs:72-80: the word is pushed unless the list contains it
add_vocabulary_word(word) ==
    /\ vocabulary' = IF word \in Range(vocabulary) THEN vocabulary
                     ELSE Append(vocabulary, word)
    /\ vocabulary_op' = [op |-> "add", word |-> word,
                         present |-> word \in Range(vocabulary)]
    /\ UNCHANGED <<prev, capability, reg_path, reg_ops, active_whisper_model,
                   active_llm_model, pref_epoch, changes_done, set_pc, set_arg,
                   transcriber_cache, cache_lock, formatter_cache, server,
                   preload, req>>

\* preferences.rs:82-87
remove_vocabulary_word(word) ==
    /\ vocabulary' = retain(vocabulary, word)
    /\ vocabulary_op' = [op |-> "remove", word |-> word,
                         present |-> word \in Range(vocabulary)]
    /\ UNCHANGED <<prev, capability, reg_path, reg_ops, active_whisper_model,
                   active_llm_model, pref_epoch, changes_done, set_pc, set_arg,
                   transcriber_cache, cache_lock, formatter_cache, server,
                   preload, req>>

(***************************************************************************)
(* WhisperTranscriber::transcribe (transcription/whisper.rs:43-77), one    *)
(* action per call it makes; an Err of a call is returned by the `?`.      *)
(* Lengths are in samples.                                                 *)
(***************************************************************************)
SAMPLE_RATE == 16000
MAX_SAMPLES == 480000

Rates == {8000, SAMPLE_RATE, 44100}
\* bad_second: the second of the audio on which inference fails (the decode
\* of a buffer that contains it returns Err), -1 if there is none
\* corrupt: a sample of the file cannot be read as the header promises (the
\* data is cut short, or the samples are wider than the type they are read as)
Artifacts == {a \in [readable : BOOLEAN, corrupt : BOOLEAN, sample_rate : Rates,
                     channels : {1, 2}, seconds : 0..MaxSeconds,
                     bad_second : -1..(MaxSeconds - 1)] :
                a.bad_second < a.seconds}

NoSamples == -1
NoMel == [len |-> 0, kept |-> 0]

\* load_audio with the sample-rate test of lines 258-264 left out
load_audio_any_rate ==
    /\ transcribe_pc = "load_audio"
    /\ IF ~audio_path.readable
       THEN /\ transcribe_pc' = "done"
            /\ transcribe_result' = "AudioOpenFailure"
            /\ UNCHANGED audio_data
       ELSE IF audio_path.corrupt
       THEN /\ transcribe_pc' = "done"
            /\ transcribe_result' = "Panic"
            /\ UNCHANGED audio_data
       ELSE /\ audio_data' = audio_path.seconds * audio_path.sample_rate
            /\ transcribe_pc' = "load_model"
            /\ UNCHANGED transcribe_result
    /\ UNCHANGED <<audio_path, padded_audio, decode_calls, text>>

\* load_audio (whisper.rs:252-286): open the WAV file, refuse any rate but
\* SAMPLE_RATE, read the samples and average the two channels of a stereo
\* file into one, which leaves one sample per frame.  Every sample is
\* unwrapped (lines 270, 273): one that cannot be read panics.
load_audio ==
    /\ transcribe_pc = "load_audio"
    /\ IF ~audio_path.readable
       THEN /\ transcribe_pc' = "done"
            /\ transcribe_result' = "AudioOpenFailure"
            /\ UNCHANGED audio_data
       ELSE IF audio_path.sample_rate # SAMPLE_RATE
       THEN /\ transcribe_pc' = "done"
            /\ transcribe_result' = "AudioFormatMismatch"
            /\ UNCHANGED audio_data
       ELSE IF audio_path.corrupt
       THEN /\ transcribe_pc' = "done"
            /\ transcribe_result' = "Panic"
            /\ UNCHANGED audio_data
       ELSE /\ audio_data' =
                  (audio_path.seconds * audio_path.sample_rate * audio_path.channels)
                      \div audio_path.channels
            /\ transcribe_pc' = "load_model"
            /\ UNCHANGED transcribe_result
    /\ UNCHANGED <<audio_path, padded_audio, decode_calls, text>>

\* get_device, load_config, load_model, load_tokenizer (lines 47-57,
\* 79-147): any of them may fail on the files beside the model.
load_model ==
    /\ transcribe_pc = "load_model"
    /\ \E loaded \in BOOLEAN :
         IF loaded
         THEN /\ transcribe_pc' = "audio_to_mel"
              /\ UNCHANGED transcribe_result
         ELSE /\ transcribe_pc' = "done"
              /\ transcribe_result' = "DecodeInitFailure"
    /\ UNCHANGED <<audio_path, audio_data, padded_audio, decode_calls, text>>

\* audio_to_mel with a zero dropped from the window length
audio_to_mel_short_window ==
    /\ transcribe_pc = "audio_to_mel"
    /\ padded_audio' =
          [len |-> MAX_SAMPLES \div 10,
           kept |-> IF audio_data < MAX_SAMPLES \div 10 THEN audio_data
                    ELSE MAX_SAMPLES \div 10]
    /\ transcribe_pc' = "decode"
    /\ UNCHANGED <<audio_path, audio_data, decode_calls, text, transcribe_result>>

\* audio_to_mel (lines 149-183): the samples are padded with zeros or
\* truncated to exactly MAX_SAMPLES and converted; kept is the number of
\* samples of audio_data that are in the buffer.
audio_to_mel ==
    /\ transcribe_pc = "audio_to_mel"
    /\ padded_audio' =
          [len |-> MAX_SAMPLES,
           kept |-> IF audio_data < MAX_SAMPLES THEN audio_data ELSE MAX_SAMPLES]
    /\ transcribe_pc' = "decode"
    /\ UNCHANGED <<audio_path, audio_data, decode_calls, text, transcribe_result>>

\* decode (lines 185-250), called once on the one mel tensor (line 63): it
\* fails when the samples in the buffer contain the bad second; its text is
\* the text of the buffer, window 0 of the audio, returned as a single
\* segment (lines 69-76).
decode ==
    /\ transcribe_pc = "decode"
    /\ decode_calls' = decode_calls + 1
    /\ IF /\ audio_path.bad_second >= 0
          /\ audio_path.bad_second * SAMPLE_RATE < padded_audio.kept
       THEN /\ transcribe_result' = "DecodeFailure"
            /\ UNCHANGED text
       ELSE /\ transcribe_result' = "Ok"
            /\ text' = <<0>>
    /\ transcribe_pc' = "done"
    /\ UNCHANGED <<audio_path, audio_data, padded_audio>>

idle_audio_path == [readable |-> FALSE, corrupt |-> FALSE,
                    sample_rate |-> SAMPLE_RATE,
                    channels |-> 1, seconds |-> 0, bad_second |-> -1]

(***************************************************************************)
(* The token loop of WhisperTranscriber::decode (whisper.rs:197-247).      *)
(***************************************************************************)
\* the four special tokens the sequence starts with (lines 199-204)
InitialTokens == 4

\* line 207: config.max_target_positions / 2
sample_len == max_target_positions \div 2

\* the loop body with the end-of-transcript test of lines 235-238 left out
decode_loop_iterate_no_eot ==
    /\ decode_pc = "loop"
    /\ loop_i < sample_len
    /\ \E forward_ok \in BOOLEAN :
         IF ~forward_ok
         THEN /\ decode_pc' = "returned"
              /\ decode_result' = "DecodeFailure"
              /\ UNCHANGED <<tokens, loop_i>>
         ELSE /\ tokens' = tokens + 1
              /\ loop_i' = loop_i + 1
              /\ decode_pc' = IF loop_i + 1 < sample_len THEN "loop" ELSE "tokenizer"
              /\ UNCHANGED decode_result
    /\ UNCHANGED eot_at

\* One iteration of `for i in 0..sample_len` (lines 209-241): the decoder
\* runs on the tokens so far (any tensor operation may fail and `?` returns
\* the error), the best token is selected, the loop breaks if it is the
\* end-of-transcript token, otherwise the token is pushed.  The loop also
\* ends when i has run through 0..sample_len.
decode_loop_iterate ==
    /\ decode_pc = "loop"
    /\ loop_i < sample_len
    /\ \E forward_ok \in BOOLEAN :
         IF ~forward_ok
         THEN /\ decode_pc' = "returned"
              /\ decode_result' = "DecodeFailure"
              /\ UNCHANGED <<tokens, loop_i>>
         ELSE IF loop_i = eot_at
         THEN /\ decode_pc' = "tokenizer"
              /\ UNCHANGED <<tokens, loop_i, decode_result>>
         ELSE /\ tokens' = tokens + 1
              /\ loop_i' = loop_i + 1
              /\ decode_pc' = IF loop_i + 1 < sample_len THEN "loop" ELSE "tokenizer"
              /\ UNCHANGED decode_result
    /\ UNCHANGED eot_at

\* Lines 243-249: the tokens are turned into text, which may fail.
decode_tokenizer ==
    /\ decode_pc = "tokenizer"
    /\ \E decoded \in BOOLEAN :
         decode_result' = IF decoded THEN "Ok" ELSE "DecodeFailure"
    /\ decode_pc' = "returned"
    /\ UNCHANGED <<tokens, loop_i, eot_at>>

(***************************************************************************)
(* Capture and resampling: the input callback that build_input_stream      *)
(* installs (audio/recorder.rs:84-135) and the end of                      *)
(* record_to_file_cancellable (lines 74-81).                               *)
(***************************************************************************)
\* AudioRecorder.sample_rate (recorder.rs:16)
target_sample_rate == 16000

InputRates == {8000, target_sample_rate, 44100, 48000}
Configs == [channels : {1, 2}, sample_rate : InputRates]
idle_config == [channels |-> 1, sample_rate |-> target_sample_rate]

\* One iteration of the loop of lines 110-126 on the pair (index, written).
\* *index is kept as the integer *index * sample_rate, so that `*index >= 1.0`
\* reads index >= sample_rate and `*index += 1.0 / resample_ratio` adds
\* target_sample_rate: the arithmetic of the f64 accumulator without its
\* rounding.
resample_frame(st) ==
    LET emit == st.index >= config.sample_rate
        rest == IF emit THEN st.index - config.sample_rate ELSE st.index
    IN [index |-> rest + target_sample_rate,
        written |-> IF emit THEN st.written + 1 ELSE st.written,
        sink |-> IF emit THEN Append(st.sink, st.frame) ELSE st.sink,
        frame |-> st.frame + 1]

RECURSIVE resample_frames(_, _)
resample_frames(st, n) ==
    IF n = 0 THEN st ELSE resample_frames(resample_frame(st), n - 1)

\* The device calls the callback with a batch of whole frames (data holds
\* channels samples per frame), line 104.  A callback may have been entered
\* when the stream is dropped.
input_callback_invoke ==
    /\ stream = "playing"
    /\ cb_pc = "idle"
    /\ \E b \in 1..MaxBatch :
        /\ frames_in + b <= MaxFrames
        /\ batch' = b * config.channels
    /\ cb_pc' = "try_lock"
    /\ UNCHANGED <<config, stream, writer, writer_lock, index_lock, sample_index,
                   frames_in, written, sink_samples, dropped, finalize_pc>>

\* the callback with writer.lock() in place of writer.try_lock()
input_callback_lock ==
    /\ cb_pc = "try_lock"
    /\ IF writer_lock = "free"
       THEN IF writer = "some"
            THEN /\ writer_lock' = "callback"
                 /\ cb_pc' = "lock_index"
                 /\ UNCHANGED batch
            ELSE /\ cb_pc' = "idle"
                 /\ batch' = 0
                 /\ UNCHANGED writer_lock
       ELSE /\ cb_pc' = "blocked"
            /\ UNCHANGED <<writer_lock, batch>>
    /\ UNCHANGED <<config, stream, writer, index_lock, sample_index, frames_in,
                   written, sink_samples, dropped, finalize_pc>>

\* the callback running the phase accumulator over a batch it cannot write
input_callback_try_lock_advance ==
    /\ cb_pc = "try_lock"
    /\ IF writer_lock = "free" /\ writer = "some"
       THEN /\ writer_lock' = "callback"
            /\ cb_pc' = "lock_index"
            /\ UNCHANGED <<batch, dropped, sample_index>>
       ELSE /\ cb_pc' = "idle"
            /\ batch' = 0
            /\ dropped' = IF writer_lock = "free" THEN dropped ELSE dropped + 1
            /\ sample_index' =
                  resample_frames([index |-> sample_index, written |-> 0,
                                   sink |-> <<>>, frame |-> 0],
                                  batch \div config.channels).index
            /\ UNCHANGED writer_lock
    /\ UNCHANGED <<config, stream, writer, index_lock, frames_in, written, sink_samples,
                   finalize_pc>>

\* Lines 105-106: writer.try_lock(); on failure the closure returns and the
\* batch is gone; on success guard.as_mut() is None once the writer has
\* been taken, and the closure returns as well.
input_callback_try_lock ==
    /\ cb_pc = "try_lock"
    /\ IF writer_lock = "free"
       THEN IF writer = "some"
            THEN /\ writer_lock' = "callback"
                 /\ cb_pc' = "lock_index"
                 /\ UNCHANGED <<batch, dropped>>
            ELSE /\ cb_pc' = "idle"
                 /\ batch' = 0
                 /\ UNCHANGED <<writer_lock, dropped>>
       ELSE /\ cb_pc' = "idle"
            /\ batch' = 0
            /\ dropped' = dropped + 1
            /\ UNCHANGED writer_lock
    /\ UNCHANGED <<config, stream, writer, index_lock, sample_index, frames_in,
                   written, sink_samples, finalize_pc>>

\* Line 107: sample_index.lock().unwrap(), a blocking lock; the callback
\* waits if another thread holds it.
input_callback_lock_index ==
    /\ cb_pc = "lock_index"
    /\ IF index_lock = "free"
       THEN /\ index_lock' = "callback"
            /\ cb_pc' = "frames"
       ELSE /\ cb_pc' = "blocked"
            /\ UNCHANGED index_lock
    /\ UNCHANGED <<config, stream, writer, writer_lock, sample_index, batch,
                   frames_in, written, sink_samples, dropped, finalize_pc>>

\* the callback with an accumulator of its own, 0.0 at each invocation
input_callback_frames_fresh_index ==
    /\ cb_pc = "frames"
    /\ LET n == batch \div config.channels
           st == resample_frames([index |-> 0, written |-> written,
                                  sink |-> sink_samples, frame |-> frames_in], n)
       IN /\ sample_index' = st.index
          /\ written' = st.written
          /\ sink_samples' = st.sink
          /\ frames_in' = frames_in + n
    /\ writer_lock' = "free"
    /\ index_lock' = "free"
    /\ batch' = 0
    /\ cb_pc' = "idle"
    /\ UNCHANGED <<config, stream, writer, dropped, finalize_pc>>

\* Lines 110-128: every frame of the batch goes through the resampling
\* loop; both guards are dropped when the closure returns.
input_callback_frames ==
    /\ cb_pc = "frames"
    /\ LET n == batch \div config.channels
           st == resample_frames([index |-> sample_index, written |-> written,
                                  sink |-> sink_samples, frame |-> frames_in], n)
       IN /\ sample_index' = st.index
          /\ written' = st.written
          /\ sink_samples' = st.sink
          /\ frames_in' = frames_in + n
    /\ writer_lock' = "free"
    /\ index_lock' = "free"
    /\ batch' = 0
    /\ cb_pc' = "idle"
    /\ UNCHANGED <<config, stream, writer, dropped, finalize_pc>>

\* Line 74, after the poll loop: drop(stream).
drop_stream ==
    /\ finalize_pc = "recording"
    /\ stream' = "dropped"
    /\ finalize_pc' = "lock"
    /\ UNCHANGED <<config, writer, writer_lock, index_lock, sample_index, cb_pc,
                   batch, frames_in, written, sink_samples, dropped>>

\* line 77 with as_ref() in place of take(): the writer stays in the mutex
finalize_lock_no_take ==
    /\ finalize_pc = "lock"
    /\ writer_lock = "free"
    /\ writer_lock' = "worker"
    /\ finalize_pc' = "finalize"
    /\ UNCHANGED <<config, stream, writer, index_lock, sample_index, cb_pc, batch,
                   frames_in, written, sink_samples, dropped>>

\* Line 77: writer.lock().unwrap().take(); the worker waits for the mutex
\* and keeps the guard to the end of the `if let`.
finalize_lock ==
    /\ finalize_pc = "lock"
    /\ writer_lock = "free"
    /\ writer_lock' = "worker"
    /\ writer' = "none"
    /\ finalize_pc' = "finalize"
    /\ UNCHANGED <<config, stream, index_lock, sample_index, cb_pc, batch,
                   frames_in, written, sink_samples, dropped>>

\* Lines 78-81: writer.finalize(), then the guard is dropped.
finalize_writer ==
    /\ finalize_pc = "finalize"
    /\ writer_lock' = "free"
    /\ finalize_pc' = "exited"
    /\ UNCHANGED <<config, stream, writer, index_lock, sample_index, cb_pc, batch,
                   frames_in, written, sink_samples, dropped>>

(***************************************************************************)
(* The poll loop of record_to_file_cancellable (recorder.rs:58-72) with    *)
(* any max_duration_secs, and what follows it.                             *)
(***************************************************************************)
\* the loop with the max-duration test of lines 67-71 left out
record_loop_poll_no_max ==
    /\ loop_pc = "polling"
    /\ \E now \in elapsed..(MaxDuration + 1) :
        /\ elapsed' = now
        /\ loop_pc' = IF loop_flag THEN "left" ELSE "polling"
    /\ UNCHANGED <<max_duration_secs, flag_shared, loop_flag>>

\* One iteration: the sleep of line 61, during which time passes, the load
\* of the stop flag (lines 63-65), and the comparison of the whole seconds
\* elapsed with max_duration_secs if there is one (lines 67-71).
record_loop_poll ==
    /\ loop_pc = "polling"
    /\ \E now \in elapsed..(MaxDuration + 1) :
        /\ elapsed' = now
        /\ loop_pc' = IF loop_flag THEN "left"
                      ELSE IF max_duration_secs # NoMax /\ now >= max_duration_secs
                      THEN "left"
                      ELSE "polling"
    /\ UNCHANGED <<max_duration_secs, flag_shared, loop_flag>>

\* stop_flag.store(true) by the thread that holds the other reference to the
\* flag (main.rs:560).
store_stop_flag ==
    /\ flag_shared
    /\ ~loop_flag
    /\ loop_flag' = TRUE
    /\ UNCHANGED <<max_duration_secs, flag_shared, elapsed, loop_pc>>

\* drop(stream) is the statement after the loop (recorder.rs:74).
record_drop_stream ==
    /\ loop_pc = "left"
    /\ drop_stream

(***************************************************************************)
(* The state main() builds (main.rs:781-879): the registry as the disk     *)
(* scan of ModelRegistry::new found it (registry.rs:97-111), the           *)
(* preferences as loaded from preferences.json (preferences.rs:41-46),     *)
(* both caches empty, the startup preload thread spawned.                  *)
(***************************************************************************)
idle_preload == [k \in Preloads |->
                   [pc |-> "unspawned", arg |-> Auto, engine |-> NoEngine]]
idle_req == [r \in Reqs |-> NewReq]
idle_server == [f \in Formatters |-> "none"]
idle_reg_path == [m \in Models |-> "none"]

InitRecording ==
    /\ recording = NoRecording
    /\ stop_flag = [s \in Sessions |-> FALSE]
    /\ worker = [s \in Sessions |-> "unspawned"]
    /\ worker_result = [s \in Sessions |-> "running"]
    /\ sink = [s \in Sessions |-> "none"]
    /\ session_path = [s \in Sessions |-> -1]
    /\ next_session = 1
    /\ clock = 0
    /\ call_pc = [c \in Callers |-> "idle"]
    /\ call_sess = [c \in Callers |-> 0]
    /\ ret = [c \in Callers |-> NoRet]
    /\ since_stop = "none"
    /\ capability = "speech"
    /\ reg_path = idle_reg_path
    /\ reg_ops = 0
    /\ active_whisper_model = Auto
    /\ active_llm_model = Auto
    /\ pref_epoch = 0
    /\ changes_done = 0
    /\ set_pc = "idle"
    /\ set_arg = Auto
    /\ transcriber_cache = NoEngine
    /\ cache_lock = "free"
    /\ formatter_cache = NoFormatter
    /\ server = idle_server
    /\ preload = idle_preload
    /\ req = idle_req
    /\ prev = NewReq
    /\ vocabulary = <<>>
    /\ audio_path = idle_audio_path
    /\ transcribe_pc = "done"
    /\ audio_data = NoSamples
    /\ padded_audio = NoMel
    /\ decode_calls = 0
    /\ text = <<>>
    /\ transcribe_result = "none"
    /\ config = idle_config
    /\ stream = "dropped"
    /\ writer = "none"
    /\ writer_lock = "free"
    /\ index_lock = "free"
    /\ sample_index = 0
    /\ cb_pc = "idle"
    /\ batch = 0
    /\ frames_in = 0
    /\ written = 0
    /\ sink_samples = <<>>
    /\ dropped = 0
    /\ finalize_pc = "exited"
    /\ tokens = 0
    /\ loop_i = 0
    /\ eot_at = 0
    /\ decode_pc = "returned"
    /\ decode_result = "none"
    /\ max_duration_secs = NoMax
    /\ flag_shared = FALSE
    /\ loop_flag = FALSE
    /\ elapsed = 0
    /\ loop_pc = "left"
    /\ reg_status = [m \in Models |-> IF reg_path[m] = "file" THEN "Installed" ELSE "NotInstalled"]
    /\ model_file = [m \in Models |-> reg_path[m] = "file"]
    /\ part_file = [m \in Models |-> "none"]
    /\ download_pc = [m \in Models |-> "idle"]
    /\ downloads = 0
    /\ vocabulary_op = NoVocabularyOp

SpecRecording == InitRecording /\ [][NextRecording]_vars

(***************************************************************************)
(* The controller driven by one caller that issues its commands one after  *)
(* the other, under fair scheduling of the worker threads: a spawned       *)
(* thread (main.rs:535) that can take its next step eventually takes it.   *)
(***************************************************************************)
NextSequential ==
    \/ start_recording_toggle_spawn("c1") /\ UNCHANGED <<cache_vars, engine_vars, capture_vars, decode_vars, loop_vars, download_vars, vocabulary_vars>>
    \/ start_recording_toggle_install("c1") /\ UNCHANGED <<cache_vars, engine_vars, capture_vars, decode_vars, loop_vars, download_vars, vocabulary_vars>>
    \/ stop_recording_take("c1") /\ UNCHANGED <<cache_vars, engine_vars, capture_vars, decode_vars, loop_vars, download_vars, vocabulary_vars>>
    \/ stop_recording_join("c1") /\ UNCHANGED <<cache_vars, engine_vars, capture_vars, decode_vars, loop_vars, download_vars, vocabulary_vars>>
    \/ \E s \in Sessions : record_open(s) /\ UNCHANGED <<cache_vars, engine_vars, capture_vars, decode_vars, loop_vars, download_vars, vocabulary_vars>>
    \/ \E s \in Sessions : record_poll(s) /\ UNCHANGED <<cache_vars, engine_vars, capture_vars, decode_vars, loop_vars, download_vars, vocabulary_vars>>
    \/ \E s \in Sessions : record_finalize(s) /\ UNCHANGED <<cache_vars, engine_vars, capture_vars, decode_vars, loop_vars, download_vars, vocabulary_vars>>

SpecRecordingFair ==
    /\ InitRecording
    /\ [][NextSequential]_vars
    /\ \A s \in Sessions :
        /\ WF_vars(record_open(s) /\ UNCHANGED <<cache_vars, engine_vars, capture_vars, decode_vars, loop_vars, download_vars, vocabulary_vars>>)
        /\ WF_vars(record_poll(s) /\ UNCHANGED <<cache_vars, engine_vars, capture_vars, decode_vars, loop_vars, download_vars, vocabulary_vars>>)
        /\ WF_vars(record_finalize(s) /\ UNCHANGED <<cache_vars, engine_vars, capture_vars, decode_vars, loop_vars, download_vars, vocabulary_vars>>)

InitCache ==
    /\ recording = NoRecording
    /\ stop_flag = [s \in Sessions |-> FALSE]
    /\ worker = [s \in Sessions |-> "unspawned"]
    /\ worker_result = [s \in Sessions |-> "running"]
    /\ sink = [s \in Sessions |-> "none"]
    /\ session_path = [s \in Sessions |-> -1]
    /\ next_session = 1
    /\ clock = 0
    /\ call_pc = [c \in Callers |-> "idle"]
    /\ call_sess = [c \in Callers |-> 0]
    /\ ret = [c \in Callers |-> NoRet]
    /\ since_stop = "none"
    /\ capability \in {"speech", "format"}
    /\ reg_path \in {f \in [Models -> {"none", "file"}] :
                        \A m \in Models \ Range(Priority(capability)) : f[m] = "none"}
    /\ reg_ops = 0
    /\ active_whisper_model \in
            IF capability = "speech" THEN {Auto} \cup Range(SpeechModels) ELSE {Auto}
    /\ active_llm_model \in
            IF capability = "format" THEN {Auto} \cup Range(LlmModels) ELSE {Auto}
    /\ pref_epoch = 0
    /\ changes_done = 0
    /\ set_pc = "idle"
    /\ set_arg = Auto
    /\ transcriber_cache = NoEngine
    /\ cache_lock = "free"
    /\ formatter_cache = NoFormatter
    /\ server = idle_server
    /\ preload = [idle_preload EXCEPT ![0].pc = "resolve"]
    /\ req = idle_req
    /\ prev = NewReq
    /\ vocabulary = <<>>
    /\ audio_path = idle_audio_path
    /\ transcribe_pc = "done"
    /\ audio_data = NoSamples
    /\ padded_audio = NoMel
    /\ decode_calls = 0
    /\ text = <<>>
    /\ transcribe_result = "none"
    /\ config = idle_config
    /\ stream = "dropped"
    /\ writer = "none"
    /\ writer_lock = "free"
    /\ index_lock = "free"
    /\ sample_index = 0
    /\ cb_pc = "idle"
    /\ batch = 0
    /\ frames_in = 0
    /\ written = 0
    /\ sink_samples = <<>>
    /\ dropped = 0
    /\ finalize_pc = "exited"
    /\ tokens = 0
    /\ loop_i = 0
    /\ eot_at = 0
    /\ decode_pc = "returned"
    /\ decode_result = "none"
    /\ max_duration_secs = NoMax
    /\ flag_shared = FALSE
    /\ loop_flag = FALSE
    /\ elapsed = 0
    /\ loop_pc = "left"
    /\ reg_status = [m \in Models |-> IF reg_path[m] = "file" THEN "Installed" ELSE "NotInstalled"]
    /\ model_file = [m \in Models |-> reg_path[m] = "file"]
    /\ part_file = [m \in Models |-> "none"]
    /\ download_pc = [m \in Models |-> "idle"]
    /\ downloads = 0
    /\ vocabulary_op = NoVocabularyOp

(***************************************************************************)
(* The commands and threads of the two engine caches, over a registry that *)
(* stays as the startup scan found it.                                     *)
(***************************************************************************)
NextCache ==
    \/ set_active_whisper_model_save /\ UNCHANGED <<rec_vars, engine_vars, capture_vars, decode_vars, loop_vars, download_vars, vocabulary_vars>>
    \/ set_active_whisper_model_clear /\ UNCHANGED <<rec_vars, engine_vars, capture_vars, decode_vars, loop_vars, download_vars, vocabulary_vars>>
    \/ \E k \in Preloads : whisper_preload_resolve(k) /\ UNCHANGED <<rec_vars, engine_vars, capture_vars, decode_vars, loop_vars, download_vars, vocabulary_vars>>
    \/ \E k \in Preloads : whisper_preload_store(k) /\ UNCHANGED <<rec_vars, engine_vars, capture_vars, decode_vars, loop_vars, download_vars, vocabulary_vars>>
    \/ \E r \in Reqs : transcribe_audio_resolve(r) /\ UNCHANGED <<rec_vars, engine_vars, capture_vars, decode_vars, loop_vars, download_vars, vocabulary_vars>>
    \/ \E r \in Reqs : transcribe_audio_lock(r) /\ UNCHANGED <<rec_vars, engine_vars, capture_vars, decode_vars, loop_vars, download_vars, vocabulary_vars>>
    \/ \E r \in Reqs : transcribe_audio_finish(r) /\ UNCHANGED <<rec_vars, engine_vars, capture_vars, decode_vars, loop_vars, download_vars, vocabulary_vars>>
    \/ set_active_llm_model_save /\ UNCHANGED <<rec_vars, engine_vars, capture_vars, decode_vars, loop_vars, download_vars, vocabulary_vars>>
    \/ set_active_llm_model_clear /\ UNCHANGED <<rec_vars, engine_vars, capture_vars, decode_vars, loop_vars, download_vars, vocabulary_vars>>
    \/ \E k \in Preloads : llm_preload_resolve(k) /\ UNCHANGED <<rec_vars, engine_vars, capture_vars, decode_vars, loop_vars, download_vars, vocabulary_vars>>
    \/ \E k \in Preloads : llm_preload_store(k) /\ UNCHANGED <<rec_vars, engine_vars, capture_vars, decode_vars, loop_vars, download_vars, vocabulary_vars>>
    \/ \E r \in Reqs : format_transcript_resolve(r) /\ UNCHANGED <<rec_vars, engine_vars, capture_vars, decode_vars, loop_vars, download_vars, vocabulary_vars>>
    \/ \E r \in Reqs : format_transcript_lock(r) /\ UNCHANGED <<rec_vars, engine_vars, capture_vars, decode_vars, loop_vars, download_vars, vocabulary_vars>>
    \/ \E r \in Reqs : format_transcript_finish(r) /\ UNCHANGED <<rec_vars, engine_vars, capture_vars, decode_vars, loop_vars, download_vars, vocabulary_vars>>

SpecCache == InitCache /\ [][NextCache]_vars

(***************************************************************************)
(* The same with the registry commands download_model and delete_model     *)
(* (main.rs:293-327) running beside them.                                  *)
(***************************************************************************)
NextRegistry ==
    \/ NextCache
    \/ \E m \in Range(Priority(capability)) : download_model(m) /\ UNCHANGED <<rec_vars, engine_vars, capture_vars, decode_vars, loop_vars, vocabulary_vars>>
    \/ \E m \in Range(Priority(capability)) : delete_model(m) /\ UNCHANGED <<rec_vars, engine_vars, capture_vars, decode_vars, loop_vars, vocabulary_vars>>

SpecRegistry == InitCache /\ [][NextRegistry]_vars

(***************************************************************************)
(* The downloader alone: the tasks spawned by start_download, step by      *)
(* step, beside delete_model, over the registry as the startup scan        *)
(* (registry.rs:97-111) found it.                                          *)
(***************************************************************************)
NextDownload ==
    \/ \E m \in Range(Priority(capability)) : start_download(m) /\ UNCHANGED <<rec_vars, engine_vars, capture_vars, decode_vars, loop_vars, vocabulary_vars>>
    \/ \E m \in Range(Priority(capability)) : download_file_send(m) /\ UNCHANGED <<rec_vars, engine_vars, capture_vars, decode_vars, loop_vars, vocabulary_vars>>
    \/ \E m \in Range(Priority(capability)) : download_file_chunk(m) /\ UNCHANGED <<rec_vars, engine_vars, capture_vars, decode_vars, loop_vars, vocabulary_vars>>
    \/ \E m \in Range(Priority(capability)) : download_file_rename(m) /\ UNCHANGED <<rec_vars, engine_vars, capture_vars, decode_vars, loop_vars, vocabulary_vars>>
    \/ \E m \in Range(Priority(capability)) : download_model_status(m) /\ UNCHANGED <<rec_vars, engine_vars, capture_vars, decode_vars, loop_vars, vocabulary_vars>>
    \/ \E m \in Range(Priority(capability)) : download_model_path(m) /\ UNCHANGED <<rec_vars, engine_vars, capture_vars, decode_vars, loop_vars, vocabulary_vars>>
    \/ \E m \in Range(Priority(capability)) : delete_model(m) /\ UNCHANGED <<rec_vars, engine_vars, capture_vars, decode_vars, loop_vars, vocabulary_vars>>

SpecDownload == InitCache /\ [][NextDownload]_vars

(***************************************************************************)
(* The caches with the request repeated: a second transcribe_audio or      *)
(* format_transcript after the first has returned.                         *)
(***************************************************************************)
NextRequests ==
    \/ NextCache
    \/ \E r \in Reqs : request_again(r) /\ UNCHANGED <<rec_vars, engine_vars, capture_vars, decode_vars, loop_vars, download_vars, vocabulary_vars>>

SpecRequests == InitCache /\ [][NextRequests]_vars

(***************************************************************************)
(* transcribe_audio, repeated, beside the vocabulary commands, over any    *)
(* saved word list.                                                        *)
(***************************************************************************)
InitVocabulary ==
    /\ recording = NoRecording
    /\ stop_flag = [s \in Sessions |-> FALSE]
    /\ worker = [s \in Sessions |-> "unspawned"]
    /\ worker_result = [s \in Sessions |-> "running"]
    /\ sink = [s \in Sessions |-> "none"]
    /\ session_path = [s \in Sessions |-> -1]
    /\ next_session = 1
    /\ clock = 0
    /\ call_pc = [c \in Callers |-> "idle"]
    /\ call_sess = [c \in Callers |-> 0]
    /\ ret = [c \in Callers |-> NoRet]
    /\ since_stop = "none"
    /\ capability = "speech"
    /\ reg_path \in {f \in [Models -> {"none", "file"}] :
                        \A m \in Models \ Range(Priority(capability)) : f[m] = "none"}
    /\ reg_ops = 0
    /\ active_whisper_model \in
            IF capability = "speech" THEN {Auto} \cup Range(SpeechModels) ELSE {Auto}
    /\ active_llm_model \in
            IF capability = "format" THEN {Auto} \cup Range(LlmModels) ELSE {Auto}
    /\ pref_epoch = 0
    /\ changes_done = 0
    /\ set_pc = "idle"
    /\ set_arg = Auto
    /\ transcriber_cache = NoEngine
    /\ cache_lock = "free"
    /\ formatter_cache = NoFormatter
    /\ server = idle_server
    /\ preload = [idle_preload EXCEPT ![0].pc = "resolve"]
    /\ req = idle_req
    /\ prev = NewReq
    /\ vocabulary \in WordLists
    /\ audio_path = idle_audio_path
    /\ transcribe_pc = "done"
    /\ audio_data = NoSamples
    /\ padded_audio = NoMel
    /\ decode_calls = 0
    /\ text = <<>>
    /\ transcribe_result = "none"
    /\ config = idle_config
    /\ stream = "dropped"
    /\ writer = "none"
    /\ writer_lock = "free"
    /\ index_lock = "free"
    /\ sample_index = 0
    /\ cb_pc = "idle"
    /\ batch = 0
    /\ frames_in = 0
    /\ written = 0
    /\ sink_samples = <<>>
    /\ dropped = 0
    /\ finalize_pc = "exited"
    /\ tokens = 0
    /\ loop_i = 0
    /\ eot_at = 0
    /\ decode_pc = "returned"
    /\ decode_result = "none"
    /\ max_duration_secs = NoMax
    /\ flag_shared = FALSE
    /\ loop_flag = FALSE
    /\ elapsed = 0
    /\ loop_pc = "left"
    /\ reg_status = [m \in Models |-> IF reg_path[m] = "file" THEN "Installed" ELSE "NotInstalled"]
    /\ model_file = [m \in Models |-> reg_path[m] = "file"]
    /\ part_file = [m \in Models |-> "none"]
    /\ download_pc = [m \in Models |-> "idle"]
    /\ downloads = 0
    /\ vocabulary_op = NoVocabularyOp

NextVocabulary ==
    \/ \E r \in Reqs : transcribe_audio_resolve(r) /\ UNCHANGED <<rec_vars, engine_vars, capture_vars, decode_vars, loop_vars, download_vars, vocabulary_vars>>
    \/ \E r \in Reqs : transcribe_audio_lock(r) /\ UNCHANGED <<rec_vars, engine_vars, capture_vars, decode_vars, loop_vars, download_vars, vocabulary_vars>>
    \/ \E r \in Reqs : transcribe_audio_finish(r) /\ UNCHANGED <<rec_vars, engine_vars, capture_vars, decode_vars, loop_vars, download_vars, vocabulary_vars>>
    \/ \E r \in Reqs : request_again(r) /\ UNCHANGED <<rec_vars, engine_vars, capture_vars, decode_vars, loop_vars, download_vars, vocabulary_vars>>
    \/ \E word \in Words : add_vocabulary_word(word) /\ UNCHANGED <<rec_vars, engine_vars, capture_vars, decode_vars, loop_vars, download_vars>>
    \/ \E word \in Words : remove_vocabulary_word(word) /\ UNCHANGED <<rec_vars, engine_vars, capture_vars, decode_vars, loop_vars, download_vars>>

SpecVocabulary == InitVocabulary /\ [][NextVocabulary]_vars

(***************************************************************************)
(* One transcribe call on any artifact.                                    *)
(***************************************************************************)
InitEngine ==
    /\ recording = NoRecording
    /\ stop_flag = [s \in Sessions |-> FALSE]
    /\ worker = [s \in Sessions |-> "unspawned"]
    /\ worker_result = [s \in Sessions |-> "running"]
    /\ sink = [s \in Sessions |-> "none"]
    /\ session_path = [s \in Sessions |-> -1]
    /\ next_session = 1
    /\ clock = 0
    /\ call_pc = [c \in Callers |-> "idle"]
    /\ call_sess = [c \in Callers |-> 0]
    /\ ret = [c \in Callers |-> NoRet]
    /\ since_stop = "none"
    /\ capability = "speech"
    /\ reg_path = idle_reg_path
    /\ reg_ops = 0
    /\ active_whisper_model = Auto
    /\ active_llm_model = Auto
    /\ pref_epoch = 0
    /\ changes_done = 0
    /\ set_pc = "idle"
    /\ set_arg = Auto
    /\ transcriber_cache = NoEngine
    /\ cache_lock = "free"
    /\ formatter_cache = NoFormatter
    /\ server = idle_server
    /\ preload = idle_preload
    /\ req = idle_req
    /\ prev = NewReq
    /\ vocabulary = <<>>
    /\ audio_path \in Artifacts
    /\ transcribe_pc = "load_audio"
    /\ audio_data = NoSamples
    /\ padded_audio = NoMel
    /\ decode_calls = 0
    /\ text = <<>>
    /\ transcribe_result = "none"
    /\ config = idle_config
    /\ stream = "dropped"
    /\ writer = "none"
    /\ writer_lock = "free"
    /\ index_lock = "free"
    /\ sample_index = 0
    /\ cb_pc = "idle"
    /\ batch = 0
    /\ frames_in = 0
    /\ written = 0
    /\ sink_samples = <<>>
    /\ dropped = 0
    /\ finalize_pc = "exited"
    /\ tokens = 0
    /\ loop_i = 0
    /\ eot_at = 0
    /\ decode_pc = "returned"
    /\ decode_result = "none"
    /\ max_duration_secs = NoMax
    /\ flag_shared = FALSE
    /\ loop_flag = FALSE
    /\ elapsed = 0
    /\ loop_pc = "left"
    /\ reg_status = [m \in Models |-> IF reg_path[m] = "file" THEN "Installed" ELSE "NotInstalled"]
    /\ model_file = [m \in Models |-> reg_path[m] = "file"]
    /\ part_file = [m \in Models |-> "none"]
    /\ download_pc = [m \in Models |-> "idle"]
    /\ downloads = 0
    /\ vocabulary_op = NoVocabularyOp

NextEngine ==
    \/ load_audio /\ UNCHANGED <<rec_vars, cache_vars, capture_vars, decode_vars, loop_vars, download_vars, vocabulary_vars>>
    \/ load_model /\ UNCHANGED <<rec_vars, cache_vars, capture_vars, decode_vars, loop_vars, download_vars, vocabulary_vars>>
    \/ audio_to_mel /\ UNCHANGED <<rec_vars, cache_vars, capture_vars, decode_vars, loop_vars, download_vars, vocabulary_vars>>
    \/ decode /\ UNCHANGED <<rec_vars, cache_vars, capture_vars, decode_vars, loop_vars, download_vars, vocabulary_vars>>

SpecEngine == InitEngine /\ [][NextEngine]_vars

(***************************************************************************)
(* One capture session from stream.play() (recorder.rs:56) on: the device  *)
(* callback beside the worker that ends the recording.                     *)
(***************************************************************************)
InitCapture ==
    /\ recording = NoRecording
    /\ stop_flag = [s \in Sessions |-> FALSE]
    /\ worker = [s \in Sessions |-> "unspawned"]
    /\ worker_result = [s \in Sessions |-> "running"]
    /\ sink = [s \in Sessions |-> "none"]
    /\ session_path = [s \in Sessions |-> -1]
    /\ next_session = 1
    /\ clock = 0
    /\ call_pc = [c \in Callers |-> "idle"]
    /\ call_sess = [c \in Callers |-> 0]
    /\ ret = [c \in Callers |-> NoRet]
    /\ since_stop = "none"
    /\ capability = "speech"
    /\ reg_path = idle_reg_path
    /\ reg_ops = 0
    /\ active_whisper_model = Auto
    /\ active_llm_model = Auto
    /\ pref_epoch = 0
    /\ changes_done = 0
    /\ set_pc = "idle"
    /\ set_arg = Auto
    /\ transcriber_cache = NoEngine
    /\ cache_lock = "free"
    /\ formatter_cache = NoFormatter
    /\ server = idle_server
    /\ preload = idle_preload
    /\ req = idle_req
    /\ prev = NewReq
    /\ vocabulary = <<>>
    /\ audio_path = idle_audio_path
    /\ transcribe_pc = "done"
    /\ audio_data = NoSamples
    /\ padded_audio = NoMel
    /\ decode_calls = 0
    /\ text = <<>>
    /\ transcribe_result = "none"
    /\ config \in Configs
    /\ stream = "playing"
    /\ writer = "some"
    /\ writer_lock = "free"
    /\ index_lock = "free"
    /\ sample_index = 0
    /\ cb_pc = "idle"
    /\ batch = 0
    /\ frames_in = 0
    /\ written = 0
    /\ sink_samples = <<>>
    /\ dropped = 0
    /\ finalize_pc = "recording"
    /\ tokens = 0
    /\ loop_i = 0
    /\ eot_at = 0
    /\ decode_pc = "returned"
    /\ decode_result = "none"
    /\ max_duration_secs = NoMax
    /\ flag_shared = FALSE
    /\ loop_flag = FALSE
    /\ elapsed = 0
    /\ loop_pc = "left"
    /\ reg_status = [m \in Models |-> IF reg_path[m] = "file" THEN "Installed" ELSE "NotInstalled"]
    /\ model_file = [m \in Models |-> reg_path[m] = "file"]
    /\ part_file = [m \in Models |-> "none"]
    /\ download_pc = [m \in Models |-> "idle"]
    /\ downloads = 0
    /\ vocabulary_op = NoVocabularyOp

NextCapture ==
    \/ input_callback_invoke /\ UNCHANGED <<rec_vars, cache_vars, engine_vars, decode_vars, loop_vars, download_vars, vocabulary_vars>>
    \/ input_callback_try_lock /\ UNCHANGED <<rec_vars, cache_vars, engine_vars, decode_vars, loop_vars, download_vars, vocabulary_vars>>
    \/ input_callback_lock_index /\ UNCHANGED <<rec_vars, cache_vars, engine_vars, decode_vars, loop_vars, download_vars, vocabulary_vars>>
    \/ input_callback_frames /\ UNCHANGED <<rec_vars, cache_vars, engine_vars, decode_vars, loop_vars, download_vars, vocabulary_vars>>
    \/ drop_stream /\ UNCHANGED <<rec_vars, cache_vars, engine_vars, decode_vars, loop_vars, download_vars, vocabulary_vars>>
    \/ finalize_lock /\ UNCHANGED <<rec_vars, cache_vars, engine_vars, decode_vars, loop_vars, download_vars, vocabulary_vars>>
    \/ finalize_writer /\ UNCHANGED <<rec_vars, cache_vars, engine_vars, decode_vars, loop_vars, download_vars, vocabulary_vars>>

SpecCapture == InitCapture /\ [][NextCapture]_vars

(***************************************************************************)
(* The same under fair scheduling of the two threads once the stream has   *)
(* been dropped: the worker's finalize and a callback that is under way    *)
(* each take the steps they can take.                                      *)
(***************************************************************************)
SpecCaptureFair ==
    /\ InitCapture
    /\ [][NextCapture]_vars
    /\ WF_vars(input_callback_try_lock /\ UNCHANGED <<rec_vars, cache_vars, engine_vars, decode_vars, loop_vars, download_vars, vocabulary_vars>>)
    /\ WF_vars(input_callback_lock_index /\ UNCHANGED <<rec_vars, cache_vars, engine_vars, decode_vars, loop_vars, download_vars, vocabulary_vars>>)
    /\ WF_vars(input_callback_frames /\ UNCHANGED <<rec_vars, cache_vars, engine_vars, decode_vars, loop_vars, download_vars, vocabulary_vars>>)
    /\ WF_vars(finalize_lock /\ UNCHANGED <<rec_vars, cache_vars, engine_vars, decode_vars, loop_vars, download_vars, vocabulary_vars>>)
    /\ WF_vars(finalize_writer /\ UNCHANGED <<rec_vars, cache_vars, engine_vars, decode_vars, loop_vars, download_vars, vocabulary_vars>>)

(***************************************************************************)
(* One call of decode, on audio whose transcript ends at any iteration or  *)
(* at none the loop reaches.                                               *)
(***************************************************************************)
InitDecode ==
    /\ recording = NoRecording
    /\ stop_flag = [s \in Sessions |-> FALSE]
    /\ worker = [s \in Sessions |-> "unspawned"]
    /\ worker_result = [s \in Sessions |-> "running"]
    /\ sink = [s \in Sessions |-> "none"]
    /\ session_path = [s \in Sessions |-> -1]
    /\ next_session = 1
    /\ clock = 0
    /\ call_pc = [c \in Callers |-> "idle"]
    /\ call_sess = [c \in Callers |-> 0]
    /\ ret = [c \in Callers |-> NoRet]
    /\ since_stop = "none"
    /\ capability = "speech"
    /\ reg_path = idle_reg_path
    /\ reg_ops = 0
    /\ active_whisper_model = Auto
    /\ active_llm_model = Auto
    /\ pref_epoch = 0
    /\ changes_done = 0
    /\ set_pc = "idle"
    /\ set_arg = Auto
    /\ transcriber_cache = NoEngine
    /\ cache_lock = "free"
    /\ formatter_cache = NoFormatter
    /\ server = idle_server
    /\ preload = idle_preload
    /\ req = idle_req
    /\ prev = NewReq
    /\ vocabulary = <<>>
    /\ audio_path = idle_audio_path
    /\ transcribe_pc = "done"
    /\ audio_data = NoSamples
    /\ padded_audio = NoMel
    /\ decode_calls = 0
    /\ text = <<>>
    /\ transcribe_result = "none"
    /\ config = idle_config
    /\ stream = "dropped"
    /\ writer = "none"
    /\ writer_lock = "free"
    /\ index_lock = "free"
    /\ sample_index = 0
    /\ cb_pc = "idle"
    /\ batch = 0
    /\ frames_in = 0
    /\ written = 0
    /\ sink_samples = <<>>
    /\ dropped = 0
    /\ finalize_pc = "exited"
    /\ tokens = InitialTokens
    /\ loop_i = 0
    /\ eot_at \in 0..(sample_len + 1)
    /\ decode_pc = "loop"
    /\ decode_result = "none"
    /\ max_duration_secs = NoMax
    /\ flag_shared = FALSE
    /\ loop_flag = FALSE
    /\ elapsed = 0
    /\ loop_pc = "left"
    /\ reg_status = [m \in Models |-> IF reg_path[m] = "file" THEN "Installed" ELSE "NotInstalled"]
    /\ model_file = [m \in Models |-> reg_path[m] = "file"]
    /\ part_file = [m \in Models |-> "none"]
    /\ download_pc = [m \in Models |-> "idle"]
    /\ downloads = 0
    /\ vocabulary_op = NoVocabularyOp

NextDecode ==
    \/ decode_loop_iterate /\ UNCHANGED <<rec_vars, cache_vars, engine_vars, capture_vars, loop_vars, download_vars, vocabulary_vars>>
    \/ decode_tokenizer /\ UNCHANGED <<rec_vars, cache_vars, engine_vars, capture_vars, loop_vars, download_vars, vocabulary_vars>>

SpecDecode == InitDecode /\ [][NextDecode]_vars

\* The same with the loop running on: decode is straight-line code of the
\* thread that called it, which takes its next step whenever it has one.
SpecDecodeFair == InitDecode /\ [][NextDecode]_vars /\ WF_vars(NextDecode)

(***************************************************************************)
(* One worker from stream.play() (recorder.rs:56) to its return, called    *)
(* with or without a maximum duration, its stop flag shared with a caller  *)
(* of stop_recording or private to record_to_file.  The worker is a thread *)
(* of its own: a step it can take is eventually taken.                     *)
(***************************************************************************)
InitWorker ==
    /\ recording = NoRecording
    /\ stop_flag = [s \in Sessions |-> FALSE]
    /\ worker = [s \in Sessions |-> "unspawned"]
    /\ worker_result = [s \in Sessions |-> "running"]
    /\ sink = [s \in Sessions |-> "none"]
    /\ session_path = [s \in Sessions |-> -1]
    /\ next_session = 1
    /\ clock = 0
    /\ call_pc = [c \in Callers |-> "idle"]
    /\ call_sess = [c \in Callers |-> 0]
    /\ ret = [c \in Callers |-> NoRet]
    /\ since_stop = "none"
    /\ capability = "speech"
    /\ reg_path = idle_reg_path
    /\ reg_ops = 0
    /\ active_whisper_model = Auto
    /\ active_llm_model = Auto
    /\ pref_epoch = 0
    /\ changes_done = 0
    /\ set_pc = "idle"
    /\ set_arg = Auto
    /\ transcriber_cache = NoEngine
    /\ cache_lock = "free"
    /\ formatter_cache = NoFormatter
    /\ server = idle_server
    /\ preload = idle_preload
    /\ req = idle_req
    /\ prev = NewReq
    /\ vocabulary = <<>>
    /\ audio_path = idle_audio_path
    /\ transcribe_pc = "done"
    /\ audio_data = NoSamples
    /\ padded_audio = NoMel
    /\ decode_calls = 0
    /\ text = <<>>
    /\ transcribe_result = "none"
    /\ config = idle_config
    /\ stream = "playing"
    /\ writer = "some"
    /\ writer_lock = "free"
    /\ index_lock = "free"
    /\ sample_index = 0
    /\ cb_pc = "idle"
    /\ batch = 0
    /\ frames_in = 0
    /\ written = 0
    /\ sink_samples = <<>>
    /\ dropped = 0
    /\ finalize_pc = "recording"
    /\ tokens = 0
    /\ loop_i = 0
    /\ eot_at = 0
    /\ decode_pc = "returned"
    /\ decode_result = "none"
    /\ max_duration_secs \in {NoMax} \cup 0..MaxDuration
    /\ flag_shared \in BOOLEAN
    /\ loop_flag = FALSE
    /\ elapsed = 0
    /\ loop_pc = "polling"
    /\ reg_status = [m \in Models |-> IF reg_path[m] = "file" THEN "Installed" ELSE "NotInstalled"]
    /\ model_file = [m \in Models |-> reg_path[m] = "file"]
    /\ part_file = [m \in Models |-> "none"]
    /\ download_pc = [m \in Models |-> "idle"]
    /\ downloads = 0
    /\ vocabulary_op = NoVocabularyOp

NextWorker ==
    \/ record_loop_poll /\ UNCHANGED <<rec_vars, cache_vars, engine_vars, decode_vars, capture_vars, download_vars, vocabulary_vars>>
    \/ store_stop_flag /\ UNCHANGED <<rec_vars, cache_vars, engine_vars, decode_vars, capture_vars, download_vars, vocabulary_vars>>
    \/ record_drop_stream /\ UNCHANGED <<rec_vars, cache_vars, engine_vars, decode_vars, loop_vars, download_vars, vocabulary_vars>>
    \/ finalize_lock /\ UNCHANGED <<rec_vars, cache_vars, engine_vars, decode_vars, loop_vars, download_vars, vocabulary_vars>>
    \/ finalize_writer /\ UNCHANGED <<rec_vars, cache_vars, engine_vars, decode_vars, loop_vars, download_vars, vocabulary_vars>>

SpecWorker ==
    /\ InitWorker
    /\ [][NextWorker]_vars
    /\ WF_vars(record_drop_stream /\ UNCHANGED <<rec_vars, cache_vars, engine_vars, decode_vars, loop_vars, download_vars, vocabulary_vars>>)
    /\ WF_vars(finalize_lock /\ UNCHANGED <<rec_vars, cache_vars, engine_vars, decode_vars, loop_vars, download_vars, vocabulary_vars>>)
    /\ WF_vars(finalize_writer /\ UNCHANGED <<rec_vars, cache_vars, engine_vars, decode_vars, loop_vars, download_vars, vocabulary_vars>>)



(***************************************************************************)
(* Claims about the engine caches.                                         *)
(***************************************************************************)
\* C5: a request that starts after a preference change has completed never
\* works with an engine cached for an earlier preference: the engine it holds
\* was loaded after that change or is one of the model the request resolved.
\* A preload thread k loads for preference save k; the formatter a request
\* builds itself serves the request's own model.
C5_FreshRequestNeverStale ==
    \A r \in Reqs :
        (req[r].pc \in {"using", "done"} /\ req[r].after >= 1) =>
            /\ req[r].engine # NoEngine =>
                  \/ req[r].engine.epoch >= req[r].after
                  \/ req[r].engine.model = req[r].model
            /\ req[r].formatter # NoFormatter =>
                  \/ req[r].formatter = ReqFormatter(r)
                  \/ req[r].formatter >= req[r].after
                  \/ server[req[r].formatter] = req[r].model

\* C6: a request that holds its engine keeps it through a preference change:
\* every step taken while the request is using the engine leaves the request
\* with the same engine (for speech, the reference into the cache still
\* designates it), the request is not ended by anything but its own return,
\* and that return delivers the outcome of that engine on the artifact (its
\* result, its error, or its panic on a sample that cannot be read).
C6_HeldEngineSurvivesInvalidation ==
    [][\A r \in Reqs :
          req[r].pc = "using" =>
              /\ req'[r].pc \in {"using", "done"}
              /\ req'[r].engine = req[r].engine
              /\ req'[r].formatter = req[r].formatter
              /\ capability = "speech" => transcriber_cache' = req[r].engine
              /\ req'[r].pc = "done" =>
                    /\ transcribe_audio_finish(r) \/ format_transcript_finish(r)
                    /\ capability = "speech" =>
                          /\ req'[r].used = req[r].engine
                          /\ req'[r].result \in {"Ok", "AudioFailure",
                                                 "DecodeInitFailure", "DecodeFailure",
                                                 "Panic"}
                    /\ capability = "format" =>
                          /\ req'[r].result \in {"Ok", "ServerStartFailure",
                                                 "CompletionFailure"}
                          /\ server'[req[r].formatter] # "none" =>
                                req'[r].result # "ServerStartFailure"]_vars

\* C6 witness: a request returned Ok although a preference change began
\* while it was using its engine, and that change has cleared the cache.
C6_Witness ==
    \E r \in Reqs :
        /\ req[r].pc = "done"
        /\ req[r].overlap
        /\ req[r].result = "Ok"
        /\ changes_done > req[r].after
        /\ req[r].engine # NoEngine \/ req[r].formatter # NoFormatter

\* C7: a transcription request made when the model it should resolve is not
\* installed has returned ModelUnavailable, without opening the artifact and
\* without building or taking an engine.
C7_NoModelFailsBeforeAudio ==
    \A r \in Reqs :
        (capability = "speech" /\ req[r].pc # "idle" /\ req[r].expect = NoModel) =>
            /\ req[r].pc = "done"
            /\ req[r].result = "ModelUnavailable"
            /\ ~req[r].opened
            /\ ~req[r].built
            /\ req[r].engine = NoEngine

\* C8: with no explicit preference a request resolves the first model of the
\* capability's list whose installation path exists, and returns
\* ModelUnavailable when there is none.
C8_AutoResolutionOrder ==
    \A r \in Reqs :
        (req[r].pc # "idle" /\ req[r].pref = Auto) =>
            /\ req[r].model = req[r].expect
            /\ req[r].expect = NoModel => req[r].result = "ModelUnavailable"

(***************************************************************************)
(* Claims about the transcriber.                                           *)
(***************************************************************************)
\* C9: once load_audio has run on a readable artifact whose sample rate is
\* not 16000 Hz, the transcription has returned AudioFormatMismatch with no
\* sample vector produced, no mel buffer built and no decode call made.
C9_WrongRateFailsImmediately ==
    (/\ transcribe_pc # "load_audio"
     /\ audio_path.readable
     /\ audio_path.sample_rate # 16000) =>
        /\ transcribe_pc = "done"
        /\ transcribe_result = "AudioFormatMismatch"
        /\ audio_data = NoSamples
        /\ padded_audio = NoMel
        /\ decode_calls = 0

\* C9 witness: a transcription of a readable 44.1 kHz artifact has returned.
C9_Witness ==
    /\ transcribe_pc = "done"
    /\ audio_path.readable
    /\ audio_path.sample_rate = 44100
    /\ audio_path.seconds > 0
    /\ transcribe_result # "none"

\* C10: a successful transcription of a buffer of 30 s or more has made
\* ceil((seconds - 1) / 29) decode calls (30 s windows, 1 s overlap) and every
\* sample of the buffer was in a decoded window.
C10_LongAudioChunked ==
    (/\ transcribe_pc = "done"
     /\ transcribe_result = "Ok"
     /\ audio_path.seconds >= 30) =>
        /\ decode_calls = (audio_path.seconds - 1 + 28) \div 29
        /\ padded_audio.kept = audio_data

\* What the transcription contract asks for a buffer of d seconds: the
\* number of 30 s windows with 1 s overlap, ceil((d - 1) / 29).
ChunkCount(d) == (d + 27) \div 29

\* C11: the transcript of a successful transcription of 30 s or more is made
\* of the texts of all its chunks, in ascending chunk index.
C11_TranscriptInChunkOrder ==
    (/\ transcribe_pc = "done"
     /\ transcribe_result = "Ok"
     /\ audio_path.seconds >= 30) =>
        text = [i \in 1..ChunkCount(audio_path.seconds) |-> i - 1]

\* C12: a transcription of a buffer shorter than 30 s that reached inference
\* made exactly one decode call, on a buffer that holds every sample of the
\* audio once; its transcript is the text of that one pass.
C12_ShortAudioSinglePass ==
    audio_path.seconds < 30 =>
        /\ decode_calls <= 1
        /\ (transcribe_pc = "done"
              /\ transcribe_result \in {"Ok", "DecodeFailure"}) =>
                /\ decode_calls = 1
                /\ audio_data = audio_path.seconds * 16000
                /\ padded_audio.kept = audio_data
                /\ transcribe_result = "Ok" => text = <<0>>

\* C12 witness: a 10 s buffer has been transcribed.
C12_Witness ==
    /\ transcribe_pc = "done"
    /\ transcribe_result = "Ok"
    /\ audio_path.seconds = 10

\* C18: a transcription that returned DecodeInitFailure had not loaded the
\* audio artifact.
C18_WeightsFailBeforeAudio ==
    transcribe_result = "DecodeInitFailure" => audio_data = NoSamples

\* C19: a transcription of 30 s or more in which the decode of some chunk
\* fails returns DecodeFailure and no transcript.
C19_AnyChunkFailureFailsRequest ==
    (/\ transcribe_pc = "done"
     /\ transcribe_result \in {"Ok", "DecodeFailure"}
     /\ audio_path.seconds >= 30
     /\ audio_path.bad_second >= 0) =>
        /\ transcribe_result = "DecodeFailure"
        /\ text = <<>>

(***************************************************************************)
(* Claims about capture and resampling.                                    *)
(***************************************************************************)
\* C13: between callbacks, when no batch has been dropped, the number of
\* samples written for the N frames processed differs from
\* N * 16000 / input_rate by at most one sample.
C13_ResampledCountWithinOne ==
    (cb_pc = "idle" /\ dropped = 0) =>
        /\ written * config.sample_rate - frames_in * 16000 <= config.sample_rate
        /\ frames_in * 16000 - written * config.sample_rate <= config.sample_rate

OpenFailed(s) ==
    \/ worker_result[s] \in {"DeviceUnavailable", "StreamFormatUnsupported"}
    \/ worker_result[s] = "SinkIOError" /\ sink[s] = "none"

\* C15: when the device, its sample format or the sink makes a session fail
\* to open, no Start has returned Ok for that session and the recording slot
\* does not hold it.
C15_StartReportsOpenFailure ==
    \A s \in Sessions :
        OpenFailed(s) =>
            /\ recording.sess # s
            /\ \A c \in Callers :
                  ~(ret[c].op = "start" /\ ret[c].sess = s /\ ret[c].result = "Ok")

\* C16: of the Stop calls made against one session at most one takes the
\* Recording State and joins its worker; a Stop that locks the slot while
\* another Stop is joining, no Start having stored since, is rejected with
\* ActiveSessionConflict.
C16_ConcurrentStopsOneWinner ==
    /\ [](\A s \in Sessions :
            Cardinality({c \in Callers :
                            \/ call_pc[c] = "stop_join" /\ call_sess[c] = s
                            \/ /\ ret[c].op = "stop" /\ ret[c].result = "Ok"
                               /\ ret[c].sess = s}) <= 1)
    /\ [][\A c \in Callers :
            (/\ call_pc[c] = "idle"
             /\ ret'[c] # ret[c]
             /\ ret'[c].op = "stop"
             /\ since_stop = "clean"
             /\ \E c2 \in Callers \ {c} : call_pc[c2] = "stop_join")
            => /\ ret'[c].result = "ActiveSessionConflict"
               /\ UNCHANGED <<recording, stop_flag, worker>>]_vars

\* C16 witness: one Stop is joining the worker and the other was rejected
\* in the meantime.
C16_Witness ==
    \E c \in Callers, c2 \in Callers :
        /\ c # c2
        /\ call_pc[c] = "stop_join"
        /\ worker[call_sess[c]] # "exited"
        /\ ret[c2].op = "stop"
        /\ ret[c2].result = "ActiveSessionConflict"
        /\ ret[c2].since = "clean"

\* C17: a poll of a worker whose cancellation flag is set ends the loop; a
\* worker only ever exits by returning from its own code (a failed open, or
\* the finalization after the loop); and a live worker whose flag is set
\* eventually exits.
C17_CancelledWorkerExits ==
    /\ [][\A s \in Sessions :
            /\ (record_poll(s) /\ stop_flag[s]) => worker'[s] = "finalizing"
            /\ (worker[s] = "finalizing" /\ worker'[s] # worker[s]) =>
                  /\ worker'[s] = "exited"
                  /\ sink'[s] \in {"finalized", "abandoned"}
            /\ (worker'[s] = "exited" /\ worker[s] # "exited") =>
                  worker[s] \in {"starting", "finalizing"}]_vars
    /\ \A s \in Sessions :
          (stop_flag[s] /\ Alive(s)) ~> (worker[s] = "exited")

\* C17 witness: a cancelled worker has left the loop, finalized and exited.
C17_Witness ==
    \E s \in Sessions :
        /\ stop_flag[s]
        /\ worker[s] = "exited"
        /\ sink[s] = "finalized"

\* C20: the cache lock is held only to replace the engine handle: a request
\* that is inside its decode or format call does not hold it, and a
\* preference change that has reached its clear is not kept waiting.
C20_LockGuardsReplacementOnly ==
    /\ \A r \in Reqs : req[r].pc = "using" => cache_lock # r
    /\ set_pc = "clear" => cache_lock = "free"

(***************************************************************************)
(* Claims about the engine instances of a capability.                      *)
(***************************************************************************)
\* The LlmFormatters whose llama-server child process has been spawned.  No
\* code path kills a child: LlmFormatter has no Drop and dropping a
\* std::process::Child leaves the process running (llm_formatter.rs:6-10,
\* 66-82).
RunningServers == {f \in Formatters : server[f] # "none"}

\* C21: for each capability at most one engine instance is live at any time,
\* after any sequence of startup preload, lazy loads and preference changes;
\* for text formatting, at most one inference server process started by the
\* cache is running at a time.
C21_AtMostOneEngineLive ==
    Cardinality(RunningServers) <= 1

(***************************************************************************)
(* Claims about the decode loop.                                           *)
(***************************************************************************)
\* C22 as stated: decoding has no output length cap; token generation goes
\* on until the end-of-transcript token is selected and is never cut off by a
\* limit on the number of generated tokens.
C22_NoOutputLengthCap ==
    decode_pc = "tokenizer" => loop_i = eot_at

\* C22, amended: token generation goes on until the end-of-transcript token
\* is selected or sample_len = max_target_positions / 2 tokens have been
\* generated, whichever comes first; no decode generates more than sample_len
\* tokens.
C22_CappedAtSampleLen ==
    /\ tokens = InitialTokens + loop_i
    /\ loop_i <= sample_len
    /\ decode_pc = "tokenizer" =>
          loop_i = (IF eot_at < sample_len THEN eot_at ELSE sample_len)

\* the loop has been cut off at sample_len tokens with no end of transcript
C22_Witness ==
    /\ decode_pc = "tokenizer"
    /\ eot_at > sample_len
    /\ tokens = InitialTokens + sample_len

(***************************************************************************)
(* Claims about the worker's poll loop and the end of a capture session.   *)
(***************************************************************************)
\* C23: a worker given a maximum duration leaves its loop at the first poll
\* at which the elapsed time has reached it, even if the stop flag is never
\* set; a worker given none leaves its loop only when the flag is set; in both
\* cases the worker then drops the stream and after that finalizes the sink.
C23_LoopExitsThenDropThenFinalize ==
    /\ [][(/\ loop_pc = "polling"
           /\ loop_flag' = loop_flag
           /\ max_duration_secs # NoMax
           /\ elapsed' >= max_duration_secs)
          => loop_pc' = "left"]_vars
    /\ [][(loop_pc = "polling" /\ loop_pc' = "left" /\ max_duration_secs = NoMax)
          => loop_flag]_vars
    /\ [](stream = "dropped" => loop_pc = "left")
    /\ [](writer = "none" => stream = "dropped")
    /\ (loop_pc = "left") ~> (stream = "dropped" /\ finalize_pc = "exited")

\* a worker with a maximum duration whose flag was never set has finalized
C23_Witness ==
    /\ max_duration_secs # NoMax
    /\ ~loop_flag
    /\ elapsed >= max_duration_secs
    /\ stream = "dropped"
    /\ finalize_pc = "exited"

\* C24: the sink of a session is finalized exactly once, by the worker, after
\* the stream has been dropped, and no callback invocation writes a sample to
\* the sink once the worker has taken it to finalize it, however the callback
\* and the finalize interleave.
C24_FinalizedOnceNoLateWrite ==
    /\ [][(finalize_pc \in {"finalize", "exited"}) => (written' = written)]_vars
    /\ [][finalize_pc = "exited" => (finalize_pc' = "exited")]_vars
    /\ [](finalize_pc \in {"finalize", "exited"} => stream = "dropped")
    /\ (stream = "dropped") ~> (finalize_pc = "exited")

\* a callback entered before the stream was dropped reaches its try_lock
\* after the sink, which holds samples, has been finalized
C24_Witness ==
    /\ finalize_pc = "exited"
    /\ cb_pc = "try_lock"
    /\ written > 0

\* C25: a callback invocation that fails to acquire the sink lock, or finds
\* the sink already taken, leaves the sink contents and the phase
\* accumulator as they were; the batch is gone and nothing else happens.
C25_DroppedBatchOnlyEffect ==
    [][(cb_pc = "try_lock" /\ cb_pc' = "idle")
       => /\ written' = written
          /\ sample_index' = sample_index
          /\ batch' = 0
          /\ <<writer, writer_lock, index_lock, frames_in>>'
                = <<writer, writer_lock, index_lock, frames_in>>]_vars

\* a batch has been dropped on contention in a session whose sink holds
\* samples and whose accumulator is not at its start
C25_Witness ==
    /\ dropped > 0
    /\ written > 0
    /\ sample_index > 0
    /\ cb_pc = "idle"
    /\ batch = 0

\* C26: the samples written to the sink do not depend on how the input is
\* split across callbacks: with no batch dropped, the frames delivered so far,
\* in whatever blocks of whole frames they came, have produced the sequence
\* that one block holding all of them produces, and the same accumulator.
C26_BlockPartitionIrrelevant ==
    (cb_pc = "idle" /\ dropped = 0) =>
        LET one == resample_frames([index |-> 0, written |-> 0,
                                    sink |-> <<>>, frame |-> 0], frames_in)
        IN /\ sink_samples = one.sink
           /\ sample_index = one.index

\* more frames than one callback can bring have been processed, none dropped,
\* and some were written
C26_Witness ==
    /\ cb_pc = "idle"
    /\ dropped = 0
    /\ frames_in > MaxBatch
    /\ Len(sink_samples) > 1

(***************************************************************************)
(* Claims about repeated requests.                                         *)
(***************************************************************************)
\* C27: a request that finds the cache entry absent constructs an engine and
\* stores it, and the request that follows it with no preference change in
\* between works with that same engine and constructs none; a request whose
\* engine construction fails leaves the cache entry absent.
C27_LazyLoadThenReuse ==
    /\ [](\A r \in Reqs :
            (/\ prev.pc = "done"
             /\ prev.built
             /\ req[r].pc = "using"
             /\ pref_epoch = prev.after)
            => /\ ~req[r].built
               /\ req[r].engine = prev.engine
               /\ req[r].formatter = prev.formatter)
    /\ [][\A r \in Reqs :
            (req[r].pc = "resolved" /\ req'[r].result = "FormatterInitFailure")
            => (formatter_cache = NoFormatter /\ formatter_cache' = NoFormatter)]_vars

\* C28: each transcription request reads the vocabulary when it is made: its
\* priming text lists the words of the list as it is then, and there is none
\* when the list is empty; the transcriber is called with the priming text if
\* there is one and without otherwise.  Nothing of the request before is kept.
C28_VocabularyReadPerRequest ==
    /\ [][\A r \in Reqs :
            (req[r].pc = "idle" /\ req'[r].pc = "resolved")
            => /\ (vocabulary = <<>>) => (req'[r].prompt = NoPrompt)
               /\ (vocabulary # <<>>) => /\ req'[r].prompt # NoPrompt
                                         /\ Tail(req'[r].prompt) = vocabulary]_vars
    /\ [](\A r \in Reqs :
            req[r].pc = "done" /\ req[r].opened
            => (req[r].call = "transcribe_with_prompt") = (req[r].prompt # NoPrompt))

\* a second request made after the word list changed carries a priming text
\* other than the first request's
C28_Witness ==
    \E r \in Reqs :
        /\ prev.pc = "done"
        /\ prev.call = "transcribe_with_prompt"
        /\ req[r].pc = "done"
        /\ req[r].call = "transcribe_with_prompt"
        /\ req[r].prompt # prev.prompt

\* C29: whenever a transcription request works with a cached engine, that
\* engine was constructed from the model path resolved for the request, also
\* when the startup preload cached it with a preference already saved and
\* when the request resolved its path before it took the cache lock.
C29_CachedEngineIsResolvedModel ==
    \A r \in Reqs :
        (capability = "speech" /\ req[r].pc = "using" /\ ~req[r].built)
        => req[r].engine.model = req[r].model

(***************************************************************************)
(* Claims about the workers a sequence of Start and Stop calls leaves.     *)
(***************************************************************************)
\* C30: after any sequence of Start and Stop calls, when the calls have
\* returned and the slot is empty, so that a further Stop is rejected, no
\* recording worker is still running: every worker spawned had a stop flag
\* that a Stop call could reach.
C30_NoOrphanedWorker ==
    (recording = NoRecording /\ \A c \in Callers : call_pc[c] = "idle")
    => \A s \in Sessions : ~Alive(s)

(***************************************************************************)
(* Claims about the registry and the downloader.                           *)
(***************************************************************************)
\* C31: a step of delete_model(m) leaves the record of m without a path and
\* with status NotInstalled, so that no resolution selects m any more: an
\* explicit preference for m resolves to nothing and the auto-selection
\* does not pick m.
C31_DeletedModelNotSelected ==
    [][\A m \in Models :
          delete_model(m) =>
              /\ reg_path'[m] = "none"
              /\ reg_status'[m] = "NotInstalled"
              /\ (transcribe_model_id(m))' = NoModel
              /\ (format_model_id(m))' = NoModel
              /\ (transcribe_model_id(Auto))' # m
              /\ (format_model_id(Auto))' # m]_vars

\* C32: in every state of the registry a model's record has a path exactly
\* when its status is Installed.
C32_PathIffInstalled ==
    \A m \in Models : has_path(m) <=> reg_status[m] = "Installed"

\* C33, its second half: a download task that has returned an error has not
\* left the model's status at Downloading (it is Failed or NotInstalled, or
\* what it was before the task touched it).
C33_FailedDownloadNotDownloading ==
    \A m \in Models :
        download_pc[m] = "returned_err" => reg_status[m] # "Downloading"

(***************************************************************************)
(* Claims about the caches, the preferences and the recorder.              *)
(***************************************************************************)
\* C34: a format request that was answered was answered by a server started
\* with the model resolved for that request.
C34_ServedByResolvedModel ==
    \A r \in Reqs :
        (capability = "format" /\ req[r].pc = "done" /\ req[r].result = "Ok") =>
            server[req[r].formatter] = req[r].model

\* C35: the return of a transcription request that did not succeed leaves
\* the speech cache entry as it was and the cache lock free for the next
\* request or preference change.
C35_FailedRequestLeavesCacheUsable ==
    [][\A r \in Reqs :
          (transcribe_audio_finish(r) /\ req'[r].result # "Ok") =>
              (transcriber_cache' = transcriber_cache /\ cache_lock' = "free")]_vars

\* C36: a step of set_active_whisper_model or set_active_llm_model whose
\* save fails returns to the caller (the setter is idle again) with the
\* in-memory preferences, both cache entries and the preload threads as
\* they were before the call.
C36_FailedSaveChangesNothing ==
    [][((set_active_whisper_model_save \/ set_active_llm_model_save)
            /\ pref_epoch' = pref_epoch) =>
          /\ set_pc' = "idle"
          /\ active_whisper_model' = active_whisper_model
          /\ active_llm_model' = active_llm_model
          /\ transcriber_cache' = transcriber_cache
          /\ formatter_cache' = formatter_cache
          /\ preload' = preload]_vars

\* C37: the vocabulary never holds a word twice; add_vocabulary_word of a
\* word the list holds leaves the list as it is, and after it the word is in
\* the list; after remove_vocabulary_word the word is not in the list.
C37_VocabularyDuplicateFree ==
    /\ [](\A i, j \in DOMAIN vocabulary : vocabulary[i] = vocabulary[j] => i = j)
    /\ [][\A word \in Words :
            (add_vocabulary_word(word) /\ word \in Range(vocabulary))
            => (vocabulary' = vocabulary)]_vars
    /\ [](vocabulary_op.op = "add" => vocabulary_op.word \in Range(vocabulary))
    /\ [](vocabulary_op.op = "remove" => vocabulary_op.word \notin Range(vocabulary))

\* a word was added to a list that held it and every other word
C37_Witness ==
    /\ vocabulary_op.op = "add"
    /\ vocabulary_op.present
    /\ Len(vocabulary) = Cardinality(Words)

\* C38: two sessions started by separate Start calls never have the same
\* output path, whatever the wall-clock seconds of the two calls.
C38_SessionPathsDistinct ==
    \A s1, s2 \in Sessions :
        (s1 # s2 /\ worker[s1] # "unspawned" /\ worker[s2] # "unspawned") =>
            session_path[s1] # session_path[s2]

\* C39: the decode loop always terminates: decode returns; a decoder step is
\* only taken at an index below sample_len = max_target_positions / 2; the
\* step that selects the end-of-transcript token leaves the loop without
\* pushing a token, so the sequence never holds more than the tokens selected
\* before it.
C39_DecodeLoopTerminates ==
    /\ <>(decode_pc = "returned")
    /\ [][(decode_pc = "loop" /\ decode_pc' # "returned") =>
            /\ loop_i < sample_len
            /\ loop_i' <= sample_len
            /\ (loop_i = eot_at) => (decode_pc' = "tokenizer" /\ tokens' = tokens)
            /\ (loop_i # eot_at) => (tokens' = tokens + 1 /\ loop_i' = loop_i + 1)]_vars
    /\ [](tokens <= InitialTokens + eot_at)

\* decode returned its text after the end-of-transcript token was selected
\* at a step before the last one the range allows
C39_Witness ==
    /\ decode_pc = "returned"
    /\ decode_result = "Ok"
    /\ eot_at > 0
    /\ eot_at < sample_len - 1
    /\ loop_i = eot_at
    /\ tokens = InitialTokens + eot_at

\* C40: the phase accumulator is never negative and, after every processed
\* frame, stays below 1 + 16000 / input_rate (in the accumulator's integer
\* form: below input_rate + 16000), for every input rate.
C40_AccumulatorBounded ==
    /\ sample_index >= 0
    /\ sample_index < config.sample_rate + target_sample_rate

====
